---- MODULE Spec2Model ----
(***************************************************************************)
(* MarketSense (Harthik777/Project2): keyword sentiment scoring, the       *)
(* append-only sentiment history of App, and the two aggregators           *)
(* (MarketDashboard, PortfolioRisk) that recompute from it.                *)
(*                                                                         *)
(* Every number of the program is a JavaScript Number, an IEEE-754 double. *)
(* The thresholds of the program (0.3, 0.7, 0.2, 0.1) are not dyadic, and  *)
(* sums of such values round, so the numbers are modelled as doubles:      *)
(* sign, exponent and 53-bit mantissa, with round-to-nearest-even after    *)
(* every operation.  TLC integers are 32 bit, so a mantissa is a sequence  *)
(* of limbs.                                                               *)
(***************************************************************************)
EXTENDS Integers, Sequences, FiniteSets, TLC

-----------------------------------------------------------------------------
(* Natural numbers of any size: little-endian sequences of limbs in        *)
(* 0..Base-1 without leading zero limbs; <<>> is 0.                        *)

Base == 16384
LimbBits == 14
MantBits == 53

\* F applied to the value v, which is computed once
With(v, F(_)) == F(v)

RECURSIVE BNorm(_)
BNorm(a) ==
  IF a = <<>> THEN <<>>
  ELSE IF a[Len(a)] = 0 THEN BNorm(SubSeq(a, 1, Len(a) - 1)) ELSE a

BRest(a) == IF a = <<>> THEN <<>> ELSE Tail(a)
BLow(a) == IF a = <<>> THEN 0 ELSE Head(a)

BFromInt(k) ==
  BNorm(<<k % Base, (k \div Base) % Base, k \div (Base * Base)>>)

RECURSIVE BAddC(_, _, _)
BAddC(a, b, c) ==
  IF a = <<>> /\ b = <<>> THEN (IF c = 0 THEN <<>> ELSE <<c>>)
  ELSE With(BLow(a) + BLow(b) + c, LAMBDA t :
         <<t % Base>> \o BAddC(BRest(a), BRest(b), t \div Base))

BAdd(a, b) == BAddC(a, b, 0)

\* a - b - c for a >= b + c
RECURSIVE BSubC(_, _, _)
BSubC(a, b, c) ==
  IF a = <<>> THEN <<>>
  ELSE With(BLow(a) - BLow(b) - c, LAMBDA t :
         IF t < 0 THEN <<t + Base>> \o BSubC(BRest(a), BRest(b), 1)
                  ELSE <<t>> \o BSubC(BRest(a), BRest(b), 0))

BSub(a, b) == BNorm(BSubC(a, b, 0))

RECURSIVE BCmpFrom(_, _, _)
BCmpFrom(a, b, i) ==
  IF i = 0 THEN 0
  ELSE IF a[i] > b[i] THEN 1
  ELSE IF a[i] < b[i] THEN -1
  ELSE BCmpFrom(a, b, i - 1)

\* -1, 0, 1 as a < b, a = b, a > b
BCmp(a, b) ==
  IF Len(a) > Len(b) THEN 1
  ELSE IF Len(a) < Len(b) THEN -1
  ELSE BCmpFrom(a, b, Len(a))

\* a * k + c for 0 <= k, c < Base
RECURSIVE BMulSmallC(_, _, _)
BMulSmallC(a, k, c) ==
  IF a = <<>> THEN (IF c = 0 THEN <<>> ELSE <<c>>)
  ELSE With(Head(a) * k + c, LAMBDA t :
         <<t % Base>> \o BMulSmallC(Tail(a), k, t \div Base))

BMulSmall(a, k) == BNorm(BMulSmallC(a, k, 0))

RECURSIVE BMul(_, _)
BMul(a, b) ==
  IF a = <<>> \/ b = <<>> THEN <<>>
  ELSE With(BMul(a, Tail(b)), LAMBDA rest :
         BAdd(BMulSmall(a, Head(b)),
              IF rest = <<>> THEN <<>> ELSE <<0>> \o rest))

\* quotient and remainder of a by k, 0 < k <= Base; limbs high to low,
\* r the remainder and q the quotient limbs so far
RECURSIVE BDivSmallFrom(_, _, _, _, _)
BDivSmallFrom(a, k, i, r, q) ==
  IF i = 0 THEN [q |-> BNorm(q), r |-> r]
  ELSE With(r * Base + a[i], LAMBDA t :
         BDivSmallFrom(a, k, i - 1, t % k, <<t \div k>> \o q))

BDivSmall(a, k) == BDivSmallFrom(a, k, Len(a), 0, <<>>)

RECURSIVE BZeros(_)
BZeros(n) == IF n = 0 THEN <<>> ELSE <<0>> \o BZeros(n - 1)

BShl(a, n) ==
  IF a = <<>> THEN <<>>
  ELSE BZeros(n \div LimbBits) \o BMulSmall(a, 2 ^ (n % LimbBits))

BShr(a, n) ==
  IF n \div LimbBits >= Len(a) THEN <<>>
  ELSE BDivSmall(SubSeq(a, n \div LimbBits + 1, Len(a)), 2 ^ (n % LimbBits)).q

RECURSIVE SmallBitLen(_)
SmallBitLen(x) == IF x = 0 THEN 0 ELSE 1 + SmallBitLen(x \div 2)

BBitLen(a) ==
  IF a = <<>> THEN 0 ELSE LimbBits * (Len(a) - 1) + SmallBitLen(a[Len(a)])

BBit(a, i) ==
  IF i \div LimbBits >= Len(a) THEN 0
  ELSE (a[i \div LimbBits + 1] \div (2 ^ (i % LimbBits))) % 2

BIsOdd(a) == a # <<>> /\ a[1] % 2 = 1

\* one step of long division: bring down bit i of a.  qr = [q, r]
BDivStep(a, b, i, qr) ==
  With(BNorm(BAddC(BShl(qr.r, 1), <<>>, BBit(a, i))), LAMBDA r2 :
    IF BCmp(r2, b) >= 0
    THEN [q |-> BNorm(BAddC(BShl(qr.q, 1), <<>>, 1)), r |-> BSub(r2, b)]
    ELSE [q |-> BShl(qr.q, 1), r |-> r2])

\* the steps for bits hi down to lo
RECURSIVE BDivBits(_, _, _, _, _)
BDivBits(a, b, hi, lo, qr) ==
  IF hi < lo THEN qr
  ELSE With(BDivStep(a, b, hi, qr), LAMBDA next :
         CASE next = next -> BDivBits(a, b, hi - 1, lo, next))

\* long division from bit i down, a limb of bits at a time (the evaluation
\* stack of TLC does not hold one frame per bit of a 110-bit dividend)
RECURSIVE BDivFrom(_, _, _, _)
BDivFrom(a, b, i, qr) ==
  IF i < 0 THEN qr
  ELSE With(BDivBits(a, b, i, IF i >= LimbBits THEN i - LimbBits + 1 ELSE 0, qr),
            LAMBDA next :
         CASE next = next -> BDivFrom(a, b, i - LimbBits, next))

\* [q |-> a \div b, r |-> a % b] for b > 0
BDiv(a, b) == BDivFrom(a, b, BBitLen(a) - 1, [q |-> <<>>, r |-> <<>>])

\* one step of the square root: set bit i of the root if it fits
BSqrtStep(a, i, res) ==
  With(BAdd(res, BShl(<<1>>, i)), LAMBDA cand :
    IF BCmp(BMul(cand, cand), a) <= 0 THEN cand ELSE res)

RECURSIVE BSqrtBits(_, _, _, _)
BSqrtBits(a, hi, lo, res) ==
  IF hi < lo THEN res
  ELSE With(BSqrtStep(a, hi, res), LAMBDA next :
         CASE next = next -> BSqrtBits(a, hi - 1, lo, next))

RECURSIVE BSqrtFrom(_, _, _)
BSqrtFrom(a, i, res) ==
  IF i < 0 THEN res
  ELSE With(BSqrtBits(a, i, IF i >= LimbBits THEN i - LimbBits + 1 ELSE 0, res),
            LAMBDA next :
         CASE next = next -> BSqrtFrom(a, i - LimbBits, next))

\* floor of the square root of a
BSqrt(a) == BSqrtFrom(a, BBitLen(a) \div 2, <<>>)

-----------------------------------------------------------------------------
(* IEEE-754 doubles: (-1)^s * m * 2^e with 2^52 <= m < 2^53, or zero.     *)
(* The values of the program stay far from the subnormal and the overflow  *)
(* range, so the exponent is unbounded here.                               *)

FZero == [s |-> 0, e |-> 0, m |-> <<>>]

FIsZero(x) == x.m = <<>>

\* round-to-nearest-even of (-1)^s * (n + f) * 2^e, where 0 <= f < 1 and
\* f > 0 iff sticky; an inexact n has more than MantBits + 1 bits
\* the rounding of n = q * 2^sh + rest to the MantBits bits of q
FRoundCut(s, n, e, sticky, sh, q) ==
  With(BCmp(BSub(n, BShl(q, sh)), BShl(<<1>>, sh - 1)), LAMBDA c :
  With(IF c > 0 \/ (c = 0 /\ (sticky \/ BIsOdd(q))) THEN BAdd(q, <<1>>) ELSE q,
       LAMBDA q2 :
    IF BBitLen(q2) > MantBits
    THEN [s |-> s, e |-> e + sh + 1, m |-> BShr(q2, 1)]
    ELSE [s |-> s, e |-> e + sh, m |-> q2]))

FRoundLen(s, n, e, sticky, len) ==
  IF len <= MantBits
  THEN [s |-> s, e |-> e - (MantBits - len), m |-> BShl(n, MantBits - len)]
  ELSE FRoundCut(s, n, e, sticky, len - MantBits, BShr(n, len - MantBits))

FRound(s, n, e, sticky) ==
  IF n = <<>> THEN FZero ELSE FRoundLen(s, n, e, sticky, BBitLen(n))

FromInt(k) == FRound(IF k < 0 THEN 1 ELSE 0, BFromInt(IF k < 0 THEN -k ELSE k), 0, FALSE)

FNeg(x) == IF FIsZero(x) THEN x ELSE [x EXCEPT !.s = 1 - x.s]
FAbs(x) == [x EXCEPT !.s = 0]

\* -1, 0, 1 as |x| < |y|, |x| = |y|, |x| > |y|
FCmpAbs(x, y) ==
  IF FIsZero(x) THEN (IF FIsZero(y) THEN 0 ELSE -1)
  ELSE IF FIsZero(y) THEN 1
  ELSE IF x.e > y.e THEN 1
  ELSE IF x.e < y.e THEN -1
  ELSE BCmp(x.m, y.m)

\* -1, 0, 1 as x < 0, x = 0, x > 0
FSign(x) == IF FIsZero(x) THEN 0 ELSE 1 - 2 * x.s

FCmp(x, y) ==
  IF FSign(x) # FSign(y) THEN (IF FSign(x) > FSign(y) THEN 1 ELSE -1)
  ELSE FSign(x) * FCmpAbs(x, y)

FLt(x, y) == FCmp(x, y) < 0
FGt(x, y) == FCmp(x, y) > 0
FLe(x, y) == FCmp(x, y) <= 0
FGe(x, y) == FCmp(x, y) >= 0

\* Math.min, Math.max
FMin(x, y) == IF FLt(y, x) THEN y ELSE x
FMax(x, y) == IF FGt(y, x) THEN y ELSE x

\* hi + lo for hi.e >= lo.e, neither zero; a is hi.m at the exponent of lo
FAddAligned(hi, lo, a) ==
  IF hi.s = lo.s THEN FRound(hi.s, BAdd(a, lo.m), lo.e, FALSE)
  ELSE With(BCmp(a, lo.m), LAMBDA c :
         IF c = 0 THEN FZero
         ELSE IF c > 0 THEN FRound(hi.s, BSub(a, lo.m), lo.e, FALSE)
         ELSE FRound(lo.s, BSub(lo.m, a), lo.e, FALSE))

FAddOrdered(hi, lo) ==
  IF hi.e - lo.e > MantBits + 2
  THEN \* lo is below a quarter of the last place of hi
       IF hi.s = lo.s
       THEN FRound(hi.s, BShl(hi.m, 2), hi.e - 2, TRUE)
       ELSE FRound(hi.s, BSub(BShl(hi.m, 2), <<1>>), hi.e - 2, TRUE)
  ELSE FAddAligned(hi, lo, BShl(hi.m, hi.e - lo.e))

\* x + y
FAdd(x, y) ==
  IF FIsZero(x) THEN y
  ELSE IF FIsZero(y) THEN x
  ELSE IF x.e >= y.e THEN FAddOrdered(x, y) ELSE FAddOrdered(y, x)

FSub(x, y) == FAdd(x, FNeg(y))

\* x * y
FMul(x, y) ==
  IF FIsZero(x) \/ FIsZero(y) THEN FZero
  ELSE FRound((x.s + y.s) % 2, BMul(x.m, y.m), x.e + y.e, FALSE)

\* x / y for y # 0
FDiv(x, y) ==
  IF FIsZero(x) THEN FZero
  ELSE With(BDiv(BShl(x.m, MantBits + 3), y.m), LAMBDA d :
         FRound((x.s + y.s) % 2, d.q, x.e - y.e - (MantBits + 3), d.r # <<>>))

\* x / n for an integer 0 < n < Base (the same double as FDiv(x, FromInt(n)))
FDivInt(x, n) ==
  IF FIsZero(x) THEN FZero
  ELSE With(BDivSmall(BShl(x.m, LimbBits + 2), n), LAMBDA d :
         FRound(x.s, d.q, x.e - (LimbBits + 2), d.r # 0))

\* Math.sqrt(x) for x >= 0
FSqrt(x) ==
  IF FIsZero(x) THEN FZero
  ELSE With(IF (x.e - 58) % 2 = 0 THEN 58 ELSE 59, LAMBDA k :
       With(BShl(x.m, k), LAMBDA n :
       With(BSqrt(n), LAMBDA root :
         FRound(0, root, (x.e - k) \div 2, BMul(root, root) # n))))

\* the double a decimal literal a/b denotes
FRat(a, b) == FDiv(FromInt(a), FromInt(b))

-----------------------------------------------------------------------------
(* Texts.  A string is the sequence of its characters, so that lower-casing *)
(* and the search for a keyword are what they are in the program.          *)

UpperCase ==
  { "A", "B", "C", "D", "E", "F", "G", "H", "I", "J", "K", "L", "M",
    "N", "O", "P", "Q", "R", "S", "T", "U", "V", "W", "X", "Y", "Z" }

LowerOf ==
  ("A" :> "a") @@ ("B" :> "b") @@ ("C" :> "c") @@ ("D" :> "d") @@ ("E" :> "e") @@ ("F" :> "f") @@ ("G" :> "g") @@
  ("H" :> "h") @@ ("I" :> "i") @@ ("J" :> "j") @@ ("K" :> "k") @@ ("L" :> "l") @@ ("M" :> "m") @@ ("N" :> "n") @@
  ("O" :> "o") @@ ("P" :> "p") @@ ("Q" :> "q") @@ ("R" :> "r") @@ ("S" :> "s") @@ ("T" :> "t") @@ ("U" :> "u") @@
  ("V" :> "v") @@ ("W" :> "w") @@ ("X" :> "x") @@ ("Y" :> "y") @@ ("Z" :> "z")

\* String.prototype.toLowerCase
toLowerCase(str) ==
  [i \in 1..Len(str) |-> IF str[i] \in UpperCase THEN LowerOf[str[i]] ELSE str[i]]

\* the white space of the texts of the model (\s, and what trim removes)
Whitespace == {" ", "\t", "\n"}

\* !text, without the trim; C30 does not hold of it
TrimIsEmptyUntrimmed(str) == str = <<>>

\* String.prototype.trim leaves the empty string
TrimIsEmpty(str) == \A i \in 1..Len(str) : str[i] \in Whitespace

OccursAt(word, str, i) ==
  /\ i + Len(word) - 1 <= Len(str)
  /\ \A j \in 1..Len(word) : str[i + j - 1] = word[j]

\* String.prototype.includes
Includes(str, word) == \E i \in 1..Len(str) : OccursAt(word, str, i)

Least(S) == CHOOSE i \in S : \A j \in S : i <= j

Range(seq) == {seq[i] : i \in 1..Len(seq)}

\* (text.match(new RegExp(word, 'g')) || []).length from position start on:
\* the matches are taken left to right and do not overlap
RECURSIVE MatchCountFrom(_, _, _)
MatchCountFrom(word, str, start) ==
  With({i \in start..Len(str) : OccursAt(word, str, i)}, LAMBDA hits :
    IF hits = {} THEN 0
    ELSE 1 + MatchCountFrom(word, str, Least(hits) + Len(word)))

MatchCount(word, str) == MatchCountFrom(word, str, 1)

bullishWords ==
  << <<"g", "r", "o", "w", "t", "h">>,
     <<"p", "r", "o", "f", "i", "t">>,
     <<"g", "a", "i", "n">>,
     <<"b", "u", "l", "l">>,
     <<"r", "i", "s", "e">>,
     <<"i", "n", "c", "r", "e", "a", "s", "e">>,
     <<"p", "o", "s", "i", "t", "i", "v", "e">>,
     <<"s", "t", "r", "o", "n", "g">>,
     <<"g", "o", "o", "d">>,
     <<"b", "u", "y">>,
     <<"u", "p", "g", "r", "a", "d", "e">>,
     <<"s", "u", "r", "g", "e">>,
     <<"r", "a", "l", "l", "y">> >>

bearishWords ==
  << <<"l", "o", "s", "s">>,
     <<"d", "e", "c", "l", "i", "n", "e">>,
     <<"f", "a", "l", "l">>,
     <<"b", "e", "a", "r">>,
     <<"d", "r", "o", "p">>,
     <<"d", "e", "c", "r", "e", "a", "s", "e">>,
     <<"n", "e", "g", "a", "t", "i", "v", "e">>,
     <<"w", "e", "a", "k">>,
     <<"b", "a", "d">>,
     <<"s", "e", "l", "l">>,
     <<"d", "o", "w", "n", "g", "r", "a", "d", "e">>,
     <<"c", "r", "a", "s", "h">>,
     <<"p", "l", "u", "n", "g", "e">> >>

sectors ==
  << <<"t", "e", "c", "h", "n", "o", "l", "o", "g", "y">>,
     <<"h", "e", "a", "l", "t", "h", "c", "a", "r", "e">>,
     <<"f", "i", "n", "a", "n", "c", "e">>,
     <<"e", "n", "e", "r", "g", "y">>,
     <<"c", "o", "n", "s", "u", "m", "e", "r">>,
     <<"i", "n", "d", "u", "s", "t", "r", "i", "a", "l">>,
     <<"m", "a", "t", "e", "r", "i", "a", "l", "s">>,
     <<"u", "t", "i", "l", "i", "t", "i", "e", "s">>,
     <<"r", "e", "a", "l", " ", "e", "s", "t", "a", "t", "e">>,
     <<"t", "e", "l", "e", "c", "o", "m">> >>

RECURSIVE SumMatches(_, _, _)
SumMatches(words, str, i) ==
  IF i > Len(words) THEN 0
  ELSE MatchCount(words[i], str) + SumMatches(words, str, i + 1)

\* extractSectors: the sectors whose name the lower-cased text contains,
\* in the order of the list
extractSectors(str) ==
  With(toLowerCase(str), LAMBDA lowerText :
    SelectSeq(sectors, LAMBDA sector : Includes(lowerText, sector)))

-----------------------------------------------------------------------------
(* useSentimentAnalysis.analyzeText: the computation after the model is    *)
(* there (the model takes no part in it).                                  *)

Half == FRat(1, 2)
One == FromInt(1)
MinusOne == FromInt(-1)
PositiveThreshold == FRat(3, 10)
HighThreshold == FRat(7, 10)
BaseConfidence == FRat(2, 10)

\* countWords with every keyword counted once however often it occurs;
\* C3 does not hold of it
RECURSIVE countWordsOnce(_, _, _, _, _)
countWordsOnce(words, lowerText, sign, i, acc) ==
  IF i > Len(words) THEN acc
  ELSE With(IF Includes(lowerText, words[i]) THEN 1 ELSE 0, LAMBDA matches :
       With([score |-> IF sign > 0
                       THEN FAdd(acc.score, FMul(FromInt(matches), Half))
                       ELSE FSub(acc.score, FMul(FromInt(matches), Half)),
             wordCount |-> acc.wordCount + matches], LAMBDA next :
         CASE next = next -> countWordsOnce(words, lowerText, sign, i + 1, next)))

\* one forEach over a word list: sign is 1 for bullishWords (score +=
\* matches * 0.5) and -1 for bearishWords (score -= matches * 0.5)
RECURSIVE countWords(_, _, _, _, _)
countWords(words, lowerText, sign, i, acc) ==
  IF i > Len(words) THEN acc
  ELSE With(MatchCount(words[i], lowerText), LAMBDA matches :
       With([score |-> IF sign > 0
                       THEN FAdd(acc.score, FMul(FromInt(matches), Half))
                       ELSE FSub(acc.score, FMul(FromInt(matches), Half)),
             wordCount |-> acc.wordCount + matches], LAMBDA next :
         CASE next = next -> countWords(words, lowerText, sign, i + 1, next)))

\* score and wordCount after both loops
keywordScore(str) ==
  With(toLowerCase(str), LAMBDA lowerText :
    countWords(bearishWords, lowerText, -1, 1,
               countWords(bullishWords, lowerText, 1, 1,
                          [score |-> FZero, wordCount |-> 0])))

\* normalizeScore without the clamp; C2 does not hold of it
normalizeScoreUnclamped(score, wordCount) ==
  IF wordCount > 0 THEN FDiv(score, FSqrt(FromInt(wordCount))) ELSE FZero

\* wordCount > 0 ? Math.max(-1, Math.min(1, score / Math.sqrt(wordCount))) : 0
normalizeScore(score, wordCount) ==
  IF wordCount > 0
  THEN FMax(MinusOne, FMin(One, FDiv(score, FSqrt(FromInt(wordCount)))))
  ELSE FZero

\* classify with the thresholds inclusive; C1 does not hold of it
classifyInclusive(normalizedScore) ==
  IF FGe(normalizedScore, PositiveThreshold)
  THEN [sentiment |-> "positive",
        marketImpact |-> IF FGe(normalizedScore, HighThreshold)
                         THEN "high" ELSE "medium"]
  ELSE IF FLe(normalizedScore, FNeg(PositiveThreshold))
  THEN [sentiment |-> "negative",
        marketImpact |-> IF FLe(normalizedScore, FNeg(HighThreshold))
                         THEN "high" ELSE "medium"]
  ELSE [sentiment |-> "neutral", marketImpact |-> "low"]

\* the if / else if / else on normalizedScore
classify(normalizedScore) ==
  IF FGt(normalizedScore, PositiveThreshold)
  THEN [sentiment |-> "positive",
        marketImpact |-> IF FGt(normalizedScore, HighThreshold)
                         THEN "high" ELSE "medium"]
  ELSE IF FLt(normalizedScore, FNeg(PositiveThreshold))
  THEN [sentiment |-> "negative",
        marketImpact |-> IF FLt(normalizedScore, FNeg(HighThreshold))
                         THEN "high" ELSE "medium"]
  ELSE [sentiment |-> "neutral", marketImpact |-> "low"]

\* confidenceOf without the 0.2; C4 does not hold of it
confidenceOfNoBase(normalizedScore) == FMin(One, FAbs(normalizedScore))

\* confidenceOf without the cap at 1; C28 does not hold of it
confidenceOfUncapped(normalizedScore) ==
  FAdd(FAbs(normalizedScore), BaseConfidence)

\* Math.min(1, Math.abs(normalizedScore) + 0.2)
confidenceOf(normalizedScore) ==
  FMin(One, FAdd(FAbs(normalizedScore), BaseConfidence))

\* the SentimentResult analyzeText resolves with
scoreText(str) ==
  With(keywordScore(str), LAMBDA kw :
  With(normalizeScore(kw.score, kw.wordCount), LAMBDA normalizedScore :
  With(classify(normalizedScore), LAMBDA class :
    [text |-> str,
     sentiment |-> class.sentiment,
     confidence |-> confidenceOf(normalizedScore),
     score |-> normalizedScore,
     marketImpact |-> class.marketImpact,
     sectors |-> extractSectors(str)])))

-----------------------------------------------------------------------------
(* The aggregators.  Both recompute from the sentimentHistory prop in a    *)
(* useEffect that returns at once while the history is empty.              *)

\* Array.prototype.reduce from element i on, left to right
RECURSIVE reduce(_, _, _, _)
reduce(Op(_, _), seq, i, acc) ==
  IF i > Len(seq) THEN acc
  ELSE With(Op(acc, seq[i]), LAMBDA next :
         CASE next = next -> reduce(Op, seq, i + 1, next))

\* Math.pow(x, 2)
pow2(x) == FMul(x, x)

WindowSize == 10

\* slice without the window; C8 does not hold of it
sliceAll(history) == history

\* sentimentHistory.slice(-10)
slice(history) ==
  SubSeq(history,
         IF Len(history) > WindowSize THEN Len(history) - WindowSize + 1 ELSE 1,
         Len(history))

avgScore(entries) ==
  FDivInt(reduce(LAMBDA sum, e : FAdd(sum, e.score), entries, 1, FZero),
          Len(entries))

avgConfidenceOf(entries) ==
  FDivInt(reduce(LAMBDA sum, e : FAdd(sum, e.confidence), entries, 1, FZero),
          Len(entries))

\* varianceOf without the division by the length; C27 does not hold of it
varianceOfSum(entries, avg) ==
  reduce(LAMBDA sum, e : FAdd(sum, pow2(FSub(e.score, avg))),
         entries, 1, FZero)

\* reduce((sum, s) => sum + Math.pow(s.score - avg, 2), 0) / length
varianceOf(entries, avg) ==
  FDivInt(reduce(LAMBDA sum, e : FAdd(sum, pow2(FSub(e.score, avg))),
                 entries, 1, FZero),
          Len(entries))

BuyThreshold == FRat(3, 10)
ConfidenceThreshold == FRat(7, 10)

recommend(avgSentiment, avgConfidence) ==
  IF FGt(avgSentiment, BuyThreshold) /\ FGt(avgConfidence, ConfidenceThreshold)
  THEN "buy"
  ELSE IF FLt(avgSentiment, FNeg(BuyThreshold))
          /\ FGt(avgConfidence, ConfidenceThreshold)
  THEN "sell"
  ELSE "hold"

\* sectorCounts after the forEach over the window: an object is the
\* sequence of its keys in insertion order with their values
IndexOfSector(counts, sector) ==
  IF \E k \in 1..Len(counts) : counts[k].sector = sector
  THEN CHOOSE k \in 1..Len(counts) : counts[k].sector = sector
  ELSE 0

addSector(counts, sector, score) ==
  With(IndexOfSector(counts, sector), LAMBDA k :
    IF k = 0
    THEN Append(counts, [sector |-> sector, count |-> 1,
                         totalSentiment |-> FAdd(FZero, score)])
    ELSE [counts EXCEPT ![k] = [sector |-> sector, count |-> @.count + 1,
                                totalSentiment |-> FAdd(@.totalSentiment, score)]])

\* sectorCountsOf with an entry counted for its first sector only; C13 does
\* not hold of it
sectorCountsFirst(entries) ==
  reduce(LAMBDA counts, e :
           IF e.sectors = <<>> THEN counts
           ELSE addSector(counts, e.sectors[1], e.score),
         entries, 1, <<>>)

sectorCountsOf(entries) ==
  reduce(LAMBDA counts, e :
           reduce(LAMBDA c, sector : addSector(c, sector, e.score),
                  e.sectors, 1, counts),
         entries, 1, <<>>)

UpperOf ==
  ("a" :> "A") @@ ("b" :> "B") @@ ("c" :> "C") @@ ("d" :> "D") @@ ("e" :> "E") @@ ("f" :> "F") @@ ("g" :> "G") @@
  ("h" :> "H") @@ ("i" :> "I") @@ ("j" :> "J") @@ ("k" :> "K") @@ ("l" :> "L") @@ ("m" :> "M") @@ ("n" :> "N") @@
  ("o" :> "O") @@ ("p" :> "P") @@ ("q" :> "Q") @@ ("r" :> "R") @@ ("s" :> "S") @@ ("t" :> "T") @@ ("u" :> "U") @@
  ("v" :> "V") @@ ("w" :> "W") @@ ("x" :> "X") @@ ("y" :> "Y") @@ ("z" :> "Z")

\* sector.charAt(0).toUpperCase() + sector.slice(1)
capitalize(sector) ==
  IF sector = <<>> THEN sector
  ELSE [sector EXCEPT ![1] = IF @ \in DOMAIN UpperOf THEN UpperOf[@] ELSE @]

SectorThreshold == FRat(1, 10)

sectorEntry(data) ==
  With(FDivInt(data.totalSentiment, data.count), LAMBDA impact :
    [sector |-> capitalize(data.sector),
     impact |-> impact,
     sentiment |-> IF FGt(impact, SectorThreshold) THEN "positive"
                   ELSE IF FLt(impact, FNeg(SectorThreshold)) THEN "negative"
                   ELSE "neutral"])

\* Array.prototype.sort with (a, b) => Math.abs(b.impact) - Math.abs(a.impact):
\* stable, larger |impact| first
insertSorted(sorted, x) ==
  With({k \in 1..Len(sorted) : FLt(FAbs(sorted[k].impact), FAbs(x.impact))},
       LAMBDA after :
  With(IF after = {} THEN Len(sorted) + 1 ELSE Least(after), LAMBDA pos :
    SubSeq(sorted, 1, pos - 1) \o <<x>> \o SubSeq(sorted, pos, Len(sorted))))

\* sortByImpact that leaves the list as it is; C14 does not hold of it
sortByImpactNone(list) == list

sortByImpact(list) == reduce(insertSorted, list, 1, <<>>)

impactedSectorsOf(entries) ==
  sortByImpact(reduce(LAMBDA list, data : Append(list, sectorEntry(data)),
                      sectorCountsOf(entries), 1, <<>>))

\* the PortfolioImpact computed from a non-empty history
assess(history) ==
  With(slice(history), LAMBDA recentSentiments :
  With(avgScore(recentSentiments), LAMBDA avgSentiment :
  With(avgConfidenceOf(recentSentiments), LAMBDA avgConfidence :
    [overallSentiment |-> avgSentiment,
     riskScore |-> FMul(FSqrt(varianceOf(recentSentiments, avgSentiment)),
                        FromInt(100)),
     recommendedAction |-> recommend(avgSentiment, avgConfidence),
     confidence |-> avgConfidence,
     impactedSectors |-> impactedSectorsOf(recentSentiments)])))

\* useState<PortfolioImpact | null>(null)
NoImpact == [none |-> TRUE]

\* portfolioRiskEffect that never runs again; C15 does not hold of it
portfolioRiskEffectNever(prev, history) == prev

\* PortfolioRisk's effect.  What it sets is a function of the history it
\* runs on, so the state it leaves is kept as that history (prev, the one
\* before, while the effect returns early) and the numbers are computed
\* from it where they are read, see portfolioImpact below.
portfolioRiskEffect(prev, history) ==
  IF Len(history) = 0 THEN prev ELSE history

\* acc[s.sentiment + 'Count']++ on the counts object.  The object is its
\* numeric properties (num) and the set of keys that hold NaN (nan): a key
\* the object lacks reads undefined, undefined++ stores NaN under that key,
\* and NaN++ is NaN again
increment(acc, key) ==
  IF key \in DOMAIN acc.num
  THEN [acc EXCEPT !.num[key] = @ + 1]
  ELSE [acc EXCEPT !.nan = @ \cup {key}]

countLabels(history) ==
  reduce(LAMBDA acc, e : increment(acc, e.sentiment \o "Count"), history, 1,
         [num |-> ("bullishCount" :> 0) @@ ("bearishCount" :> 0)
                  @@ ("neutralCount" :> 0),
          nan |-> {}])

InitialMetrics ==
  [avgSentiment |-> FZero, volatility |-> FZero,
   bullishCount |-> 0, bearishCount |-> 0, neutralCount |-> 0]

\* the marketMetrics computed from a non-empty history
metricsOf(history) ==
  With(avgScore(history), LAMBDA avgSentiment :
  With(countLabels(history), LAMBDA counts :
    [avgSentiment |-> avgSentiment,
     volatility |-> FSqrt(varianceOf(history, avgSentiment)),
     bullishCount |-> counts.num["bullishCount"],
     bearishCount |-> counts.num["bearishCount"],
     neutralCount |-> counts.num["neutralCount"]]))

\* MarketDashboard's effect, kept like PortfolioRisk's
marketDashboardEffect(prev, history) ==
  IF Len(history) = 0 THEN prev ELSE history

-----------------------------------------------------------------------------
(* FreeNewsService: the RSS feeds, their clean-up, the removal of          *)
(* duplicates and the fallback list.  Times are minutes on one clock.      *)

\* the feeds in the order fetchLatestFinancialNews asks for them; slug is
\* sourceName.toLowerCase().replace(/\s+/g, '-')
feedSources ==
  << [name |-> "Yahoo Finance", slug |-> "yahoo-finance"],
     [name |-> "Yahoo Finance Markets", slug |-> "yahoo-finance-markets"],
     [name |-> "MarketWatch", slug |-> "marketwatch"],
     [name |-> "MarketWatch Markets", slug |-> "marketwatch-markets"],
     [name |-> "CNN Business", slug |-> "cnn-business"],
     [name |-> "CNN Markets", slug |-> "cnn-markets"],
     [name |-> "Reuters Business", slug |-> "reuters-business"] >>

\* \w of a regular expression
WordChars ==
  UpperCase \cup {LowerOf[c] : c \in UpperCase}
    \cup {"0", "1", "2", "3", "4", "5", "6", "7", "8", "9", "_"}

\* the first position from i on that holds ch, 0 if there is none
firstAt(str, i, ch) ==
  With({j \in i..Len(str) : str[j] = ch}, LAMBDA hits :
    IF hits = {} THEN 0 ELSE Least(hits))

\* .replace(/<[^>]*>/g, '') from position i on
RECURSIVE stripTags(_, _)
stripTags(str, i) ==
  IF i > Len(str) THEN <<>>
  ELSE With(firstAt(str, i, ">"), LAMBDA close :
         IF str[i] = "<" /\ close # 0 THEN stripTags(str, close + 1)
         ELSE <<str[i]>> \o stripTags(str, i + 1))

\* .replace(/&[^;]+;/g, ' ') from position i on
RECURSIVE replaceEntities(_, _)
replaceEntities(str, i) ==
  IF i > Len(str) THEN <<>>
  ELSE With(firstAt(str, i + 1, ";"), LAMBDA semi :
         IF str[i] = "&" /\ semi > i + 1
         THEN <<" ">> \o replaceEntities(str, semi + 1)
         ELSE <<str[i]>> \o replaceEntities(str, i + 1))

\* .replace(/\s+/g, ' ').trim() from position i on, out being the result so far
RECURSIVE normalizeSpaces(_, _, _)
normalizeSpaces(str, i, out) ==
  IF i > Len(str)
  THEN IF out # <<>> /\ out[Len(out)] = " "
       THEN SubSeq(out, 1, Len(out) - 1) ELSE out
  ELSE IF str[i] \in Whitespace
       THEN IF out = <<>> \/ out[Len(out)] = " "
            THEN normalizeSpaces(str, i + 1, out)
            ELSE normalizeSpaces(str, i + 1, Append(out, " "))
       ELSE normalizeSpaces(str, i + 1, Append(out, str[i]))

cleanTitle(title) ==
  normalizeSpaces(replaceEntities(stripTags(title, 1), 1), 1, <<>>)

categories ==
  << [category |-> "Technology",
      keywords |->
        << <<"t", "e", "c", "h">>,
           <<"a", "i">>,
           <<"s", "o", "f", "t", "w", "a", "r", "e">>,
           <<"a", "p", "p", "l", "e">>,
           <<"m", "i", "c", "r", "o", "s", "o", "f", "t">>,
           <<"g", "o", "o", "g", "l", "e">>,
           <<"m", "e", "t", "a">> >>],
     [category |-> "Finance",
      keywords |->
        << <<"b", "a", "n", "k">>,
           <<"f", "i", "n", "a", "n", "c", "e">>,
           <<"c", "r", "e", "d", "i", "t">>,
           <<"l", "o", "a", "n">>,
           <<"j", "p", "m", "o", "r", "g", "a", "n">>,
           <<"g", "o", "l", "d", "m", "a", "n">> >>],
     [category |-> "Healthcare",
      keywords |->
        << <<"h", "e", "a", "l", "t", "h">>,
           <<"p", "h", "a", "r", "m", "a">>,
           <<"m", "e", "d", "i", "c", "a", "l">>,
           <<"d", "r", "u", "g">>,
           <<"p", "f", "i", "z", "e", "r">>,
           <<"m", "o", "d", "e", "r", "n", "a">> >>],
     [category |-> "Energy",
      keywords |->
        << <<"o", "i", "l">>,
           <<"e", "n", "e", "r", "g", "y">>,
           <<"g", "a", "s">>,
           <<"r", "e", "n", "e", "w", "a", "b", "l", "e">>,
           <<"e", "x", "x", "o", "n">>,
           <<"c", "h", "e", "v", "r", "o", "n">> >>],
     [category |-> "Consumer",
      keywords |->
        << <<"c", "o", "n", "s", "u", "m", "e", "r">>,
           <<"r", "e", "t", "a", "i", "l">>,
           <<"w", "a", "l", "m", "a", "r", "t">>,
           <<"a", "m", "a", "z", "o", "n">>,
           <<"t", "a", "r", "g", "e", "t">> >>],
     [category |-> "Real Estate",
      keywords |->
        << <<"r", "e", "a", "l", " ", "e", "s", "t", "a", "t", "e">>,
           <<"p", "r", "o", "p", "e", "r", "t", "y">>,
           <<"h", "o", "u", "s", "i", "n", "g">>,
           <<"m", "o", "r", "t", "g", "a", "g", "e">> >>],
     [category |-> "Cryptocurrency",
      keywords |->
        << <<"c", "r", "y", "p", "t", "o">>,
           <<"b", "i", "t", "c", "o", "i", "n">>,
           <<"e", "t", "h", "e", "r", "e", "u", "m">>,
           <<"b", "l", "o", "c", "k", "c", "h", "a", "i", "n">> >>],
     [category |-> "Economics",
      keywords |->
        << <<"f", "e", "d">>,
           <<"f", "e", "d", "e", "r", "a", "l", " ", "r", "e", "s", "e", "r", "v", "e">>,
           <<"i", "n", "t", "e", "r", "e", "s", "t", " ", "r", "a", "t", "e">>,
           <<"i", "n", "f", "l", "a", "t", "i", "o", "n">> >>] >>

\* categorizeNews: the first category with a keyword in the lower-cased text
categorizeNews(str) ==
  With({k \in 1..Len(categories) :
          \E w \in Range(categories[k].keywords) :
             Includes(toLowerCase(str), w)}, LAMBDA hits :
    IF hits = {} THEN "Markets" ELSE categories[Least(hits)].category)

\* feeds as they may arrive: "Stocks rally" and "Oil <b>falls</b> &amp; gas";
\* "STOCKS RALLY!"; "Stocks - rally", "Fed holds" and "Stocks rally" again
rssLists ==
  << << [title |-> <<"S", "t", "o", "c", "k", "s", " ", "r", "a", "l", "l", "y">>,
        description |-> <<>>, pubDate |-> 500],
        [title |-> <<"O", "i", "l", " ", "<", "b", ">", "f", "a", "l", "l", "s", "<", "/", "b", ">", " ", "&", "a", "m", "p", ";", " ", "g", "a", "s">>,
        description |-> <<>>, pubDate |-> 480] >>,
     << [title |-> <<"S", "T", "O", "C", "K", "S", " ", "R", "A", "L", "L", "Y", "!">>,
        description |-> <<>>, pubDate |-> 560] >>,
     << [title |-> <<"S", "t", "o", "c", "k", "s", " ", "-", " ", "r", "a", "l", "l", "y">>,
        description |-> <<>>, pubDate |-> 470],
        [title |-> <<"F", "e", "d", " ", "h", "o", "l", "d", "s">>,
        description |-> <<>>, pubDate |-> 590],
        [title |-> <<"S", "t", "o", "c", "k", "s", " ", "r", "a", "l", "l", "y">>,
        description |-> <<>>, pubDate |-> 450] >> >>

\* the headline and the category fetchRSSFeed gives an item of a feed
parsedItem(item) ==
  [headline |-> cleanTitle(item.title),
   category |-> categorizeNews(item.title \o <<" ">> \o item.description)]

\* the same as a table over the items above, each converted once
RECURSIVE tabulateItems(_, _)
tabulateItems(items, i) ==
  IF i > Len(items) THEN <<>>
  ELSE (items[i] :> parsedItem(items[i])) @@ tabulateItems(items, i + 1)

knownItems ==
  tabulateItems(reduce(LAMBDA all, list : all \o list, rssLists, 1, <<>>), 1)

\* the CORS proxies in the order fetchWithProxy tries them
CORS_PROXIES == <<"allorigins", "corsproxy.io", "codetabs">>

\* what a proxy that works answers for a feed: allorigins wraps the feed in
\* a JSON object, the others send it as it is
responseOf(proxy, content) ==
  IF proxy = "allorigins" THEN [contents |-> content] ELSE content

\* fetchWithProxy that gives up after the second proxy; C26 does not hold
\* of it
RECURSIVE fetchWithProxyTwo(_, _, _)
fetchWithProxyTwo(works, content, proxyIndex) ==
  IF proxyIndex > 2
  THEN [ok |-> FALSE, error |-> "All CORS proxies failed", proxy |-> 0,
        attempts |-> 0, data |-> <<>>]
  ELSE IF works[proxyIndex]
       THEN [ok |-> TRUE, error |-> "", proxy |-> proxyIndex,
             attempts |-> 1, data |-> content]
       ELSE With(fetchWithProxyTwo(works, content, proxyIndex + 1),
                 LAMBDA next : [next EXCEPT !.attempts = @ + 1])

\* fetchWithProxy(url, proxyIndex), proxies counted from 1: works[j] says
\* whether the request through the j-th proxy succeeds, content is the feed
\* behind url; attempts counts the requests made
RECURSIVE fetchWithProxy(_, _, _)
fetchWithProxy(works, content, proxyIndex) ==
  IF proxyIndex > Len(CORS_PROXIES)
  THEN [ok |-> FALSE, error |-> "All CORS proxies failed", proxy |-> 0,
        attempts |-> 0, data |-> <<>>]
  ELSE IF works[proxyIndex]
       THEN With(responseOf(CORS_PROXIES[proxyIndex], content), LAMBDA body :
              [ok |-> TRUE, error |-> "", proxy |-> proxyIndex,
               attempts |-> 1,
               data |-> IF CORS_PROXIES[proxyIndex] = "allorigins"
                        THEN body.contents ELSE body])
       ELSE With(fetchWithProxy(works, content, proxyIndex + 1), LAMBDA next :
              [next EXCEPT !.attempts = @ + 1])

\* the request for one feed as fetchRSSFeed makes it: fetchWithProxy from the
\* first proxy on, and the items parseRSSFeed finds in what it returns
requestFeed(works, content) ==
  With(fetchWithProxy(works, content, 1), LAMBDA got :
    [ok |-> got.ok, items |-> IF got.ok THEN got.data ELSE <<>>,
     works |-> works, proxy |-> got.proxy, attempts |-> got.attempts,
     error |-> got.error])

\* fetchRSSFeed for the k-th feed: reply.ok says that fetchWithProxy got the
\* feed through one of the proxies, reply.items are the items parseRSSFeed
\* finds in it; a feed no proxy delivers gives the empty list
fetchRSSFeed(k, reply) ==
  IF ~reply.ok THEN <<>>
  ELSE [i \in 1..Len(reply.items) |->
          [id |-> feedSources[k].slug \o "-" \o ToString(i - 1),
           headline |-> knownItems[reply.items[i]].headline,
           source |-> feedSources[k].name,
           timestamp |-> reply.items[i].pubDate,
           category |-> knownItems[reply.items[i]].category]]

\* the key removeDuplicates compares: the headline in lower case without
\* the characters that are neither \w nor whitespace, its whitespace
\* normalised
titleKey(headline) ==
  normalizeSpaces(SelectSeq(toLowerCase(headline),
                            LAMBDA c : c \in WordChars \cup Whitespace),
                  1, <<>>)

\* removeDuplicates: the first item of every key stays
removeDuplicates(news) ==
  reduce(LAMBDA acc, item :
           With(titleKey(item.headline), LAMBDA key :
             IF key \in acc.seen THEN acc
             ELSE [seen |-> acc.seen \cup {key},
                   kept |-> Append(acc.kept, item)]),
         news, 1, [seen |-> {}, kept |-> <<>>]).kept

\* .sort((a, b) => b.timestamp.getTime() - a.timestamp.getTime()), a stable
\* sort: an item goes before the first one that is older
insertByTime(sorted, x) ==
  With({k \in 1..Len(sorted) : sorted[k].timestamp < x.timestamp},
       LAMBDA older :
  With(IF older = {} THEN Len(sorted) + 1 ELSE Least(older), LAMBDA pos :
    SubSeq(sorted, 1, pos - 1) \o <<x>> \o SubSeq(sorted, pos, Len(sorted))))

sortByTime(news) == reduce(insertByTime, news, 1, <<>>)

getFallbackNews(currentTime) ==
  << [id |-> "fallback-1", source |-> "Financial News", category |-> "Technology",
      timestamp |-> currentTime - 30,
      headline |->
        <<"T", "e", "c", "h", " ", "s", "t", "o", "c", "k", "s", " ", "r",
          "a", "l", "l", "y", " ", "a", "s", " ", "A", "I", " ", "c", "o", "m",
          "p", "a", "n", "i", "e", "s", " ", "r", "e", "p", "o", "r", "t", " ",
          "s", "t", "r", "o", "n", "g", " ", "q", "u", "a", "r", "t", "e", "r",
          "l", "y", " ", "e", "a", "r", "n", "i", "n", "g", "s">>],
     [id |-> "fallback-2", source |-> "Economic Times", category |-> "Economics",
      timestamp |-> currentTime - 60,
      headline |->
        <<"F", "e", "d", "e", "r", "a", "l", " ", "R", "e", "s", "e", "r",
          "v", "e", " ", "m", "a", "i", "n", "t", "a", "i", "n", "s", " ", "i",
          "n", "t", "e", "r", "e", "s", "t", " ", "r", "a", "t", "e", "s", " ",
          "a", "m", "i", "d", " ", "e", "c", "o", "n", "o", "m", "i", "c", " ",
          "u", "n", "c", "e", "r", "t", "a", "i", "n", "t", "y">>],
     [id |-> "fallback-3", source |-> "Market Watch", category |-> "Energy",
      timestamp |-> currentTime - 90,
      headline |->
        <<"E", "n", "e", "r", "g", "y", " ", "s", "e", "c", "t", "o", "r",
          " ", "s", "e", "e", "s", " ", "m", "i", "x", "e", "d", " ", "r", "e",
          "s", "u", "l", "t", "s", " ", "a", "s", " ", "o", "i", "l", " ", "p",
          "r", "i", "c", "e", "s", " ", "f", "l", "u", "c", "t", "u", "a", "t",
          "e">>],
     [id |-> "fallback-4", source |-> "Financial Tribune", category |-> "Finance",
      timestamp |-> currentTime - 120,
      headline |->
        <<"B", "a", "n", "k", "i", "n", "g", " ", "s", "e", "c", "t", "o",
          "r", " ", "s", "h", "o", "w", "s", " ", "r", "e", "s", "i", "l", "i",
          "e", "n", "c", "e", " ", "w", "i", "t", "h", " ", "s", "t", "r", "o",
          "n", "g", " ", "l", "o", "a", "n", " ", "g", "r", "o", "w", "t",
          "h">>],
     [id |-> "fallback-5", source |-> "Health Finance", category |-> "Healthcare",
      timestamp |-> currentTime - 150,
      headline |->
        <<"H", "e", "a", "l", "t", "h", "c", "a", "r", "e", " ", "s", "t",
          "o", "c", "k", "s", " ", "a", "d", "v", "a", "n", "c", "e", " ", "o",
          "n", " ", "b", "r", "e", "a", "k", "t", "h", "r", "o", "u", "g", "h",
          " ", "d", "r", "u", "g", " ", "a", "p", "p", "r", "o", "v", "a", "l",
          "s">>] >>

\* what the feeds give together, in the order of feedSources
allNewsOf(replies) ==
  reduce(LAMBDA allNews, k : allNews \o fetchRSSFeed(k, replies[k]),
         [k \in 1..Len(feedSources) |-> k], 1, <<>>)

\* fetchLatestFinancialNews without the fallback; C25 does not hold of it
fetchLatestFinancialNewsNoFallback(replies, limit, currentTime) ==
  With(sortByTime(removeDuplicates(allNewsOf(replies))), LAMBDA uniqueNews :
    SubSeq(uniqueNews, 1, IF Len(uniqueNews) < limit
                          THEN Len(uniqueNews) ELSE limit))

\* fetchLatestFinancialNews(limit) at currentTime, the feeds replying with
\* replies
fetchLatestFinancialNews(replies, limit, currentTime) ==
  With(allNewsOf(replies), LAMBDA allNews :
    IF Len(allNews) = 0 THEN getFallbackNews(currentTime)
    ELSE With(sortByTime(removeDuplicates(allNews)), LAMBDA uniqueNews :
           SubSeq(uniqueNews, 1, IF Len(uniqueNews) < limit
                                 THEN Len(uniqueNews) ELSE limit)))

-----------------------------------------------------------------------------
(* NewsService, the service over the keyed APIs.                           *)

\* the sources in the order fetchLatestFinancialNews asks for them
apiSources == <<"Alpha Vantage", "NewsAPI", "Finnhub">>

\* String.prototype.trim
RECURSIVE trim(_)
trim(str) ==
  IF str = <<>> THEN str
  ELSE IF Head(str) \in Whitespace THEN trim(Tail(str))
  ELSE IF str[Len(str)] \in Whitespace THEN trim(SubSeq(str, 1, Len(str) - 1))
  ELSE str

\* NewsService.removeDuplicates: the key is the headline in lower case
\* without the characters that are neither \w nor whitespace, trimmed
NewsService_removeDuplicates(news) ==
  reduce(LAMBDA acc, item :
           With(trim(SelectSeq(toLowerCase(item.headline),
                               LAMBDA c : c \in WordChars \cup Whitespace)),
                LAMBDA key :
             IF key \in acc.seen THEN acc
             ELSE [seen |-> acc.seen \cup {key},
                   kept |-> Append(acc.kept, item)]),
         news, 1, [seen |-> {}, kept |-> <<>>]).kept

\* tryFetchFromSource for the k-th source: the articles as NewsItems, the
\* headline being the title as it came; no data when the request failed
tryFetchFromSource(k, reply) ==
  IF ~reply.ok THEN <<>>
  ELSE [i \in 1..Len(reply.items) |->
          [id |-> apiSources[k] \o "-" \o ToString(i - 1),
           headline |-> reply.items[i].title,
           source |-> apiSources[k],
           timestamp |-> reply.items[i].pubDate]]

\* what the sources give together, in the order of apiSources
NewsService_allNews(replies) ==
  reduce(LAMBDA allNews, k : allNews \o tryFetchFromSource(k, replies[k]),
         [k \in 1..Len(apiSources) |-> k], 1, <<>>)

\* NewsService.fetchLatestFinancialNews(limit): it rejects when the sources
\* gave no item
NewsService_fetchLatestFinancialNews(replies, limit) ==
  With(NewsService_allNews(replies), LAMBDA allNews :
    IF Len(allNews) = 0 THEN [rejected |-> TRUE, news |-> <<>>]
    ELSE With(sortByTime(NewsService_removeDuplicates(allNews)),
              LAMBDA uniqueNews :
           [rejected |-> FALSE,
            news |-> SubSeq(uniqueNews, 1, IF Len(uniqueNews) < limit
                                           THEN Len(uniqueNews) ELSE limit)]))

-----------------------------------------------------------------------------
(* The application state.                                                  *)

VARIABLES
  sentimentHistory,   \* App: every SentimentResult so far
  activeTab,          \* App: "analyzer", "batch", "dashboard" or "risk"
  text,               \* SentimentAnalyzer: the textarea
  result,             \* SentimentAnalyzer: the result on display
  modelInitialized,   \* SentimentAnalyzer
  analyzerHook,       \* useSentimentAnalysis of the mounted SentimentAnalyzer
  newsItems,          \* NewsAnalyzer: the loaded list
  results,            \* NewsAnalyzer: the analysed list
  newsHook,           \* useSentimentAnalysis of the mounted NewsAnalyzer
  singles,            \* handleAnalysis calls waiting for tf.ready()
  batches,            \* analyzeBatch calls with items waiting for tf.ready()
  riskSeen,           \* PortfolioRisk: the history its effect last computed from
  dashboardSeen,      \* MarketDashboard: the history its effect last computed from
  feeds,              \* what the k-th source of a news service replies to a request
  fetched             \* the outcome of the last fetchLatestFinancialNews call

vars ==
  <<sentimentHistory, activeTab, text, result, modelInitialized, analyzerHook,
    newsItems, results, newsHook, singles, batches, riskSeen, dashboardSeen,
    feeds, fetched>>

\* PortfolioRisk's portfolioImpact state
portfolioImpact ==
  IF Len(riskSeen) = 0 THEN NoImpact ELSE assess(riskSeen)

\* MarketDashboard's marketMetrics state
marketMetrics ==
  IF Len(dashboardSeen) = 0 THEN InitialMetrics ELSE metricsOf(dashboardSeen)

Tabs == {"analyzer", "batch", "dashboard", "risk"}

\* the state of a hook instance after its useState / useRef calls
NewHook == [isLoading |-> FALSE, isModelReady |-> FALSE, modelRef |-> FALSE]

\* the state of a hook instance after initializeModel
ReadyHook == [isLoading |-> FALSE, isModelReady |-> TRUE, modelRef |-> TRUE]

\* useState<SentimentResult | null>(null)
NoResult == [none |-> TRUE]

\* loadSampleNews: the list it sets (timestamps are not modelled)
sampleNews ==
  <<
    [id |-> "1", source |-> "Financial Times", category |-> "Technology",
     headline |->
      <<"T", "e", "c", "h", " ", "s", "t", "o", "c", "k", "s", " ", "s",
        "u", "r", "g", "e", " ", "a", "s", " ", "A", "I", " ", "c", "o",
        "m", "p", "a", "n", "i", "e", "s", " ", "r", "e", "p", "o", "r",
        "t", " ", "s", "t", "r", "o", "n", "g", " ", "e", "a", "r", "n",
        "i", "n", "g", "s", " ", "g", "r", "o", "w", "t", "h">>],
    [id |-> "2", source |-> "Bloomberg", category |-> "Economics",
     headline |->
      <<"F", "e", "d", "e", "r", "a", "l", " ", "R", "e", "s", "e", "r",
        "v", "e", " ", "s", "i", "g", "n", "a", "l", "s", " ", "p", "o",
        "t", "e", "n", "t", "i", "a", "l", " ", "i", "n", "t", "e", "r",
        "e", "s", "t", " ", "r", "a", "t", "e", " ", "c", "u", "t", "s",
        " ", "a", "m", "i", "d", " ", "e", "c", "o", "n", "o", "m", "i",
        "c", " ", "c", "o", "n", "c", "e", "r", "n", "s">>],
    [id |-> "3", source |-> "Reuters", category |-> "Energy",
     headline |->
      <<"O", "i", "l", " ", "p", "r", "i", "c", "e", "s", " ", "p", "l",
        "u", "n", "g", "e", " ", "o", "n", " ", "w", "e", "a", "k", " ",
        "d", "e", "m", "a", "n", "d", " ", "f", "o", "r", "e", "c", "a",
        "s", "t", "s", " ", "a", "n", "d", " ", "o", "v", "e", "r", "s",
        "u", "p", "p", "l", "y", " ", "f", "e", "a", "r", "s">>],
    [id |-> "4", source |-> "Wall Street Journal", category |-> "Finance",
     headline |->
      <<"B", "a", "n", "k", "i", "n", "g", " ", "s", "e", "c", "t", "o",
        "r", " ", "s", "h", "o", "w", "s", " ", "r", "e", "s", "i", "l",
        "i", "e", "n", "c", "e", " ", "w", "i", "t", "h", " ", "r", "e",
        "c", "o", "r", "d", " ", "q", "u", "a", "r", "t", "e", "r", "l",
        "y", " ", "p", "r", "o", "f", "i", "t", "s">>],
    [id |-> "5", source |-> "MarketWatch", category |-> "Healthcare",
     headline |->
      <<"H", "e", "a", "l", "t", "h", "c", "a", "r", "e", " ", "s", "t",
        "o", "c", "k", "s", " ", "d", "e", "c", "l", "i", "n", "e", " ",
        "f", "o", "l", "l", "o", "w", "i", "n", "g", " ", "d", "r", "u",
        "g", " ", "a", "p", "p", "r", "o", "v", "a", "l", " ", "s", "e",
        "t", "b", "a", "c", "k", "s">>]
  >>

\* who renders what: App mounts one tab at a time
analyzerMounted(tab) == tab = "analyzer"
newsMounted(tab) == tab = "batch"
riskMounted(tab) == tab \in {"batch", "risk"}
dashboardMounted(tab) == tab \in {"analyzer", "dashboard"}

\* the effects of the aggregators on a commit that changed the history
\* while tab stays mounted
riskAfter(tab, prev, history) ==
  IF riskMounted(tab) THEN portfolioRiskEffect(prev, history) ELSE prev

dashboardAfter(tab, prev, history) ==
  IF dashboardMounted(tab) THEN marketDashboardEffect(prev, history) ELSE prev

\* handleAnalysis with the result put first; C7 does not hold of it
handleAnalysisPrepend(history, r) == <<r>> \o history

\* App.handleAnalysis: setSentimentHistory(prev => [...prev, result])
handleAnalysis(history, r) == Append(history, r)

\* { ...item, sentiment }
withSentiment(item, sentiment) ==
  [field \in DOMAIN item \cup {"sentiment"} |->
     IF field = "sentiment" THEN sentiment ELSE item[field]]

\* handleBatchAnalysis that leaves out the neutral results; C21 does not
\* hold of it
handleBatchAnalysisNonNeutral(history, list) ==
  history \o reduce(LAMBDA prev, item : Append(prev, item.sentiment),
                    SelectSeq(list, LAMBDA item :
                                /\ "sentiment" \in DOMAIN item
                                /\ item.sentiment.sentiment # "neutral"),
                    1, <<>>)

\* App.handleBatchAnalysis: the sentiments of the items that carry one,
\* appended in order
handleBatchAnalysis(history, list) ==
  history \o reduce(LAMBDA prev, item : Append(prev, item.sentiment),
                    SelectSeq(list, LAMBDA item : "sentiment" \in DOMAIN item),
                    1, <<>>)


-----------------------------------------------------------------------------
(* Bounds and inputs of the model.                                         *)

\* Spec: the history never grows beyond MaxHistory entries
MaxHistory == 6
\* Spec: at most MaxInFlight analyses wait for tf.ready() at a time
MaxInFlight == 1
\* SpecScore: a scored text holds up to MaxMatches bullish and up to
\* MaxMatches bearish keyword occurrences
MaxMatches == 16
\* SpecRisk: the history never grows beyond MaxRiskHistory entries
MaxRiskHistory == 7
\* SpecWindow: the history never grows beyond MaxWindowHistory entries
MaxWindowHistory == 12

\* what a user types into the textarea: "Profits up", one bullish keyword,
\* and "Weak markets CRASH", two bearish ones
typedTexts ==
  << <<"P", "r", "o", "f", "i", "t", "s", " ", "u", "p">>,
     <<"W", "e", "a", "k", " ", "m", "a", "r", "k", "e", "t", "s", " ",
       "C", "R", "A", "S", "H">> >>

\* a text of white space alone, typed or pasted
blankText == <<" ", "\t", "\n", " ">>

\* texts that name sectors: "Technology and finance rally" (two sectors, one
\* bullish keyword), "Energy and finance crash" (two sectors, one bearish
\* keyword) and "Energy outlook" (one sector, no keyword)
sectorTexts ==
  << <<"T", "e", "c", "h", "n", "o", "l", "o", "g", "y", " ", "a",
       "n", "d", " ", "f", "i", "n", "a", "n", "c", "e", " ", "r",
       "a", "l", "l", "y">>,
     <<"E", "n", "e", "r", "g", "y", " ", "a", "n", "d", " ", "f",
       "i", "n", "a", "n", "c", "e", " ", "c", "r", "a", "s", "h">>,
     <<"E", "n", "e", "r", "g", "y", " ", "o", "u", "t", "l", "o",
       "o", "k">> >>

\* SpecBounds: the history never grows beyond MaxBoundsHistory entries
MaxBoundsHistory == 4
\* SpecRace: at most MaxRaceInFlight analyses wait for tf.ready() at a time,
\* and the history never grows beyond MaxRaceHistory entries
MaxRaceInFlight == 2
MaxRaceHistory == 4
\* SpecNews: the first MaxFeeds sources may reply, the others are out of reach
MaxFeeds == 3
\* SpecNews: fetchLatestFinancialNews is asked for 1..MaxLimit items, or for
\* NewsLimit
MaxLimit == 2

\* the present moment, and the limit NewsAnalyzer asks for
CurrentTime == 600
NewsLimit == 20

\* what the request for a feed may give: every pattern of proxies that work,
\* with no item or with one of the lists above behind them
feedReplies ==
  { requestFeed(<<FALSE, FALSE, FALSE>>, <<>>),
    requestFeed(<<TRUE, FALSE, FALSE>>, rssLists[2]),
    requestFeed(<<FALSE, TRUE, FALSE>>, <<>>),
    requestFeed(<<FALSE, FALSE, TRUE>>, rssLists[2]),
    requestFeed(<<TRUE, TRUE, FALSE>>, rssLists[1]),
    requestFeed(<<TRUE, FALSE, TRUE>>, rssLists[3]),
    requestFeed(<<FALSE, TRUE, TRUE>>, rssLists[1]),
    requestFeed(<<TRUE, TRUE, TRUE>>, <<>>) }

\* no fetchLatestFinancialNews call yet
NoFetch == [service |-> "none", limit |-> 0, rejected |-> FALSE, news |-> <<>>]

\* no source can be reached
feedsDown ==
  [k \in 1..Len(feedSources) |-> requestFeed(<<FALSE, FALSE, FALSE>>, <<>>)]

\* SpecRace: the first feed alone is delivered, with two items
raceFeeds ==
  [k \in 1..Len(feedSources) |->
     IF k = 1 THEN requestFeed(<<TRUE, TRUE, TRUE>>, rssLists[1])
     ELSE feedsDown[k]]

feedStates ==
  {[k \in 1..Len(feedSources) |->
      IF k <= MaxFeeds THEN some[k] ELSE feedsDown[k]] :
     some \in [1..MaxFeeds -> feedReplies]}

\* texts at the ends of the scale: "Strong profit growth rally", four bullish
\* keywords, and "Weak loss decline crash", four bearish ones
strongTexts ==
  << <<"S", "t", "r", "o", "n", "g", " ", "p", "r", "o", "f", "i", "t", " ",
       "g", "r", "o", "w", "t", "h", " ", "r", "a", "l", "l", "y">>,
     <<"W", "e", "a", "k", " ", "l", "o", "s", "s", " ", "d", "e", "c", "l",
       "i", "n", "e", " ", "c", "r", "a", "s", "h">> >>

\* the texts the model scores again and again
knownTexts ==
  typedTexts \o sectorTexts \o strongTexts
    \o reduce(LAMBDA list, item : Append(list, item.headline),
              sampleNews, 1, <<>>)
    \o reduce(LAMBDA list, feed :
                list \o [i \in 1..Len(feed) |-> knownItems[feed[i]].headline],
              rssLists, 1, <<>>)

\* their results as a table from text to result, each text scored once
RECURSIVE tabulate(_, _)
tabulate(texts, i) ==
  IF i > Len(texts) THEN <<>>
  ELSE (texts[i] :> scoreText(texts[i])) @@ tabulate(texts, i + 1)

knownResults == tabulate(knownTexts, 1)

\* analyzeText once its model is there
analyzeText(t) ==
  IF t \in DOMAIN knownResults THEN knownResults[t] ELSE scoreText(t)

\* batchResults in the reverse order; C5 does not hold of it
batchResultsReversed(items) ==
  reduce(LAMBDA list, item :
           <<withSentiment(item, analyzeText(item.headline))>> \o list,
         items, 1, <<>>)

\* what analyzeBatch resolves with when every item was scored
batchResults(items) ==
  reduce(LAMBDA list, item :
           Append(list, withSentiment(item, analyzeText(item.headline))),
         items, 1, <<>>)

\* the words a generated text is made of: a keyword as it is, in upper case,
\* and inside a longer word
bullishTokens ==
  << <<"b", "u", "y">>,
     <<"R", "A", "L", "L", "Y">>,
     <<"p", "r", "o", "f", "i", "t", "s">> >>

bearishTokens ==
  << <<"b", "a", "d">>,
     <<"S", "E", "L", "L">>,
     <<"c", "r", "a", "s", "h", "e", "d">> >>

\* n words of tokens, each after a blank
RECURSIVE wordsOf(_, _)
wordsOf(tokens, n) ==
  IF n = 0 THEN <<>>
  ELSE wordsOf(tokens, n - 1) \o <<" ">> \o tokens[((n - 1) % Len(tokens)) + 1]

\* a text with b bullish and r bearish keyword occurrences
textWith(b, r) ==
  <<"S", "t", "o", "c", "k", "s">> \o wordsOf(bullishTokens, b)
    \o wordsOf(bearishTokens, r)

\* SpecScore: the texts that are scored
scoredTexts ==
  {textWith(b, r) : b \in 0..MaxMatches, r \in 0..MaxMatches}
    \cup Range(knownTexts)

-----------------------------------------------------------------------------
(* The operations.  An analysis waits at one place only, the               *)
(* await tf.ready() of initializeModel; everything else between two user   *)
(* events runs to completion.                                              *)

\* the state after App and the analyzer tab have mounted, but for the textarea
Mounted ==
  /\ sentimentHistory = <<>>
  /\ activeTab = "analyzer"
  /\ result = NoResult
  /\ modelInitialized = FALSE
  /\ analyzerHook = NewHook
  /\ newsItems = <<>>
  /\ results = <<>>
  /\ newsHook = NewHook
  /\ singles = <<>>
  /\ batches = <<>>
  /\ riskSeen = <<>>
  /\ dashboardSeen = <<>>
  /\ fetched = NoFetch

Init == text = <<>> /\ feeds = feedsDown /\ Mounted

RemoveAt(seq, k) == SubSeq(seq, 1, k - 1) \o SubSeq(seq, k + 1, Len(seq))

RECURSIVE PendingAppends(_, _)
PendingAppends(bs, k) ==
  IF k > Len(bs) THEN 0
  ELSE (IF bs[k].failed THEN 0 ELSE Len(bs[k].items)) + PendingAppends(bs, k + 1)

\* the entries the history holds once everything in flight has succeeded
Committed == Len(sentimentHistory) + Len(singles) + PendingAppends(batches, 1)

InFlight == Len(singles) + Len(batches)

\* the commit of a new history: the state and the aggregators' effects
CommitHistory(history) ==
  /\ sentimentHistory' = history
  /\ riskSeen' = riskAfter(activeTab, riskSeen, history)
  /\ dashboardSeen' = dashboardAfter(activeTab, dashboardSeen, history)

\* textarea onChange
SetText(t) ==
  /\ analyzerMounted(activeTab)
  /\ t # text
  /\ text' = t
  /\ UNCHANGED <<feeds, fetched, sentimentHistory, activeTab, result, modelInitialized,
                 analyzerHook, newsItems, results, newsHook, singles, batches,
                 riskSeen, dashboardSeen>>

\* the end of SentimentAnalyzer.handleAnalysis for the text t, once
\* analyzeText has its model: setResult (while mounted) and onAnalysis
DeliverResult(r, live) ==
  /\ result' = IF live THEN r ELSE result
  /\ CommitHistory(handleAnalysis(sentimentHistory, r))

\* SentimentAnalyzer.handleAnalysis from the click to its first wait.  With
\* a model in modelRef nothing waits: initializeModel returns it, analyzeText
\* scores, setResult and onAnalysis follow.  Without one, initializeModel
\* sets isLoading and waits for tf.ready().
AnalyzeClickWithin(maxInFlight, maxHistory) ==
  /\ analyzerMounted(activeTab)
  /\ ~TrimIsEmpty(text)
  /\ ~analyzerHook.isLoading
  /\ Committed + 1 <= maxHistory
  /\ IF analyzerHook.modelRef
     THEN /\ DeliverResult(analyzeText(text), TRUE)
          /\ modelInitialized' = TRUE
          /\ UNCHANGED <<analyzerHook, singles>>
     ELSE /\ InFlight < maxInFlight
          /\ analyzerHook' = [analyzerHook EXCEPT !.isLoading = TRUE]
          /\ singles' = Append(singles,
                          [text |-> text,
                           pc |-> IF modelInitialized THEN "retry" ELSE "init",
                           live |-> TRUE])
          /\ UNCHANGED <<result, modelInitialized, sentimentHistory,
                         riskSeen, dashboardSeen>>
  /\ UNCHANGED <<feeds, fetched, activeTab, text, newsItems, results, newsHook, batches>>

AnalyzeClick == AnalyzeClickWithin(MaxInFlight, MaxHistory)

\* tf.ready() resolves for the waiting handleAnalysis k: initializeModel
\* builds the model and clears isLoading, and the analysis runs to its end.
\* (pc "init": the wait inside handleInitializeModel, which then sets
\* modelInitialized; pc "retry": the wait inside analyzeText.)
SingleReady(k) ==
  /\ k \in 1..Len(singles)
  /\ IF singles[k].live
     THEN /\ analyzerHook' = ReadyHook
          /\ modelInitialized' = (modelInitialized \/ singles[k].pc = "init")
     ELSE UNCHANGED <<analyzerHook, modelInitialized>>
  /\ DeliverResult(analyzeText(singles[k].text), singles[k].live)
  /\ singles' = RemoveAt(singles, k)
  /\ UNCHANGED <<feeds, fetched, activeTab, text, newsItems, results, newsHook, batches>>

\* tf.ready() rejects for the waiting handleAnalysis k.  In
\* handleInitializeModel the error is caught and analyzeText calls
\* initializeModel again (isLoading false, then true again); in analyzeText
\* the error is rethrown and handleAnalysis ends in its catch.
SingleFail(k) ==
  /\ k \in 1..Len(singles)
  /\ IF singles[k].pc = "init"
     THEN /\ singles' = [singles EXCEPT ![k].pc = "retry"]
          /\ UNCHANGED analyzerHook
     ELSE /\ singles' = RemoveAt(singles, k)
          /\ analyzerHook' = IF singles[k].live
                             THEN [analyzerHook EXCEPT !.isLoading = FALSE]
                             ELSE analyzerHook
  /\ UNCHANGED <<feeds, fetched, sentimentHistory, activeTab, text, result, modelInitialized,
                 newsItems, results, newsHook, batches, riskSeen,
                 dashboardSeen>>

\* NewsAnalyzer.loadSampleNews
LoadSampleNews ==
  /\ newsMounted(activeTab)
  /\ newsItems' = sampleNews
  /\ UNCHANGED <<feeds, fetched, sentimentHistory, activeTab, text, result, modelInitialized,
                 analyzerHook, results, newsHook, singles, batches, riskSeen,
                 dashboardSeen>>

\* DeliverBatch that does nothing once the NewsAnalyzer is unmounted; C22
\* does not hold of it
DeliverBatchMountedOnly(list, live) ==
  /\ results' = IF live THEN list ELSE results
  /\ CommitHistory(IF live THEN handleBatchAnalysis(sentimentHistory, list)
                   ELSE sentimentHistory)

\* the end of analyzeBatchNews after analyzeBatch resolved with list:
\* setResults (while mounted) and onBatchAnalysis
DeliverBatch(list, live) ==
  /\ results' = IF live THEN list ELSE results
  /\ CommitHistory(handleBatchAnalysis(sentimentHistory, list))

\* NewsAnalyzer.analyzeBatchNews from the click to its first wait.
\* analyzeBatch sets isLoading and starts analyzeText for every item; with a
\* model in modelRef none of them waits and the batch runs to its end,
\* without one every item calls initializeModel and waits for tf.ready().
AnalyzeBatchClickWithin(maxInFlight, maxHistory) ==
  /\ newsMounted(activeTab)
  /\ Len(newsItems) # 0
  /\ ~newsHook.isLoading
  /\ Committed + Len(newsItems) <= maxHistory
  /\ IF newsHook.modelRef
     THEN /\ DeliverBatch(batchResults(newsItems), TRUE)
          /\ UNCHANGED <<newsHook, batches>>
     ELSE /\ InFlight < maxInFlight
          /\ newsHook' = [newsHook EXCEPT !.isLoading = TRUE]
          /\ batches' = Append(batches,
                          [items |-> newsItems, pending |-> 1..Len(newsItems),
                           failed |-> FALSE, live |-> TRUE])
          /\ UNCHANGED <<results, sentimentHistory, riskSeen, dashboardSeen>>
  /\ UNCHANGED <<feeds, fetched, activeTab, text, result, modelInitialized, analyzerHook,
                 newsItems, singles>>

AnalyzeBatchClick == AnalyzeBatchClickWithin(MaxInFlight, MaxHistory)

\* the batches once item i of batch k is through; failed: it threw
batchesAfter(k, i, failed) ==
  IF batches[k].pending = {i} THEN RemoveAt(batches, k)
  ELSE [batches EXCEPT ![k].pending = @ \ {i},
                       ![k].failed = @ \/ failed]

\* batchResolves that forgets the items that threw; C6 does not hold of it
batchResolvesSettled(b, i) == b.pending = {i}

\* Promise.all resolves with item i of batch b: it is the last one and
\* none has thrown
batchResolves(b, i) == b.pending = {i} /\ ~b.failed

\* tf.ready() resolves for item i of batch k: initializeModel builds a model
\* and clears isLoading, and the item is scored.  With the last item of a
\* batch in which nothing failed Promise.all resolves, in input order.
ItemReady(k, i) ==
  /\ k \in 1..Len(batches)
  /\ i \in batches[k].pending
  /\ newsHook' = IF batches[k].live THEN ReadyHook ELSE newsHook
  /\ batches' = batchesAfter(k, i, FALSE)
  /\ IF batchResolves(batches[k], i)
     THEN DeliverBatch(batchResults(batches[k].items), batches[k].live)
     ELSE UNCHANGED <<results, sentimentHistory, riskSeen, dashboardSeen>>
  /\ UNCHANGED <<feeds, fetched, activeTab, text, result, modelInitialized, analyzerHook,
                 newsItems, singles>>

\* tf.ready() rejects for item i of batch k: initializeModel clears
\* isLoading and throws, analyzeText rethrows, Promise.all rejects (the
\* first time), analyzeBatch clears isLoading and analyzeBatchNews logs.
ItemFail(k, i) ==
  /\ k \in 1..Len(batches)
  /\ i \in batches[k].pending
  /\ newsHook' = IF batches[k].live
                 THEN [newsHook EXCEPT !.isLoading = FALSE]
                 ELSE newsHook
  /\ batches' = batchesAfter(k, i, TRUE)
  /\ UNCHANGED <<feeds, fetched, sentimentHistory, activeTab, text, result, modelInitialized,
                 analyzerHook, newsItems, results, singles, riskSeen,
                 dashboardSeen>>

Orphaned(procs) == [k \in 1..Len(procs) |-> [procs[k] EXCEPT !.live = FALSE]]

\* setActiveTab: the components of the old tab unmount (their state is
\* gone; what they started goes on), those of the new tab mount with their
\* initial state and run their effects
SetActiveTab(tab) ==
  /\ tab \in Tabs
  /\ tab # activeTab
  /\ activeTab' = tab
  /\ text' = <<>>
  /\ result' = NoResult
  /\ modelInitialized' = FALSE
  /\ analyzerHook' = NewHook
  /\ newsItems' = <<>>
  /\ results' = <<>>
  /\ newsHook' = NewHook
  /\ singles' = Orphaned(singles)
  /\ batches' = Orphaned(batches)
  /\ riskSeen' = riskAfter(tab, <<>>, sentimentHistory)
  /\ dashboardSeen' = dashboardAfter(tab, <<>>, sentimentHistory)
  /\ UNCHANGED <<feeds, fetched, sentimentHistory>>

Next ==
  \/ \E t \in Range(typedTexts) \cup {<<>>, blankText} : SetText(t)
  \/ AnalyzeClick
  \/ \E k \in 1..MaxInFlight : SingleReady(k)
  \/ \E k \in 1..MaxInFlight : SingleFail(k)
  \/ LoadSampleNews
  \/ AnalyzeBatchClick
  \/ \E k \in 1..MaxInFlight : \E i \in 1..MaxHistory : ItemReady(k, i)
  \/ \E k \in 1..MaxInFlight : \E i \in 1..MaxHistory : ItemFail(k, i)
  \/ \E tab \in Tabs : SetActiveTab(tab)

Spec == Init /\ [][Next]_vars

-----------------------------------------------------------------------------
(* SpecScore: one analysis of each text of scoredTexts.                    *)

InitScore == text \in scoredTexts /\ feeds = feedsDown /\ Mounted

\* SentimentAnalyzer.handleAnalysis from the click to its end, tf.ready()
\* resolving with nothing in between
AnalyzeThrough ==
  /\ analyzerMounted(activeTab)
  /\ ~TrimIsEmpty(text)
  /\ ~analyzerHook.isLoading
  /\ result = NoResult
  /\ analyzerHook' = ReadyHook
  /\ modelInitialized' = TRUE
  /\ DeliverResult(analyzeText(text), TRUE)
  /\ UNCHANGED <<feeds, fetched, activeTab, text, newsItems, results, newsHook, singles,
                 batches>>

NextScore == AnalyzeThrough

SpecScore == InitScore /\ [][NextScore]_vars

-----------------------------------------------------------------------------
(* SpecRisk and SpecWindow: App and the aggregators, with the analyses     *)
(* seen from App as calls of its two callbacks.                            *)

\* onAnalysis with the result for the text t, the history below max
OnAnalysis(t, max) ==
  /\ Len(sentimentHistory) + 1 <= max
  /\ CommitHistory(handleAnalysis(sentimentHistory, analyzeText(t)))
  /\ UNCHANGED <<feeds, fetched, activeTab, text, result, modelInitialized, analyzerHook,
                 newsItems, results, newsHook, singles, batches>>

\* onBatchAnalysis with the analysed sample news
OnBatchAnalysis(max) ==
  /\ Len(sentimentHistory) + Len(sampleNews) <= max
  /\ CommitHistory(handleBatchAnalysis(sentimentHistory,
                                       batchResults(sampleNews)))
  /\ UNCHANGED <<feeds, fetched, activeTab, text, result, modelInitialized, analyzerHook,
                 newsItems, results, newsHook, singles, batches>>

NextRisk ==
  \/ \E t \in Range(typedTexts) : OnAnalysis(t, MaxRiskHistory)
  \/ OnBatchAnalysis(MaxRiskHistory)
  \/ \E tab \in Tabs : SetActiveTab(tab)

SpecRisk == Init /\ [][NextRisk]_vars

NextWindow ==
  \/ OnAnalysis(typedTexts[1], MaxWindowHistory)
  \/ OnBatchAnalysis(MaxWindowHistory)
  \/ \E tab \in Tabs : SetActiveTab(tab)

SpecWindow == Init /\ [][NextWindow]_vars

-----------------------------------------------------------------------------
(* The claims.                                                             *)

\* the bullish and the bearish keyword occurrences of a text
bullishMatches(str) == SumMatches(bullishWords, toLowerCase(str), 1)
bearishMatches(str) == SumMatches(bearishWords, toLowerCase(str), 1)

\* 0.5 (b - r) / sqrt(b + r) in doubles, before the clamp
rawScore(b, r) == FDiv(FMul(Half, FromInt(b - r)), FSqrt(FromInt(b + r)))

\* C1: the label is positive for a score above 0.3, negative for one below
\* -0.3 and neutral otherwise; the impact is high beyond 0.7, medium for the
\* other positive and negative results and low for neutral ones.  All four
\* comparisons are strict: a score of exactly 0.3 or -0.3 is neutral and low,
\* one of exactly 0.7 or -0.7 is medium.
C1_LabelThresholds ==
  result # NoResult =>
    /\ result.sentiment =
         (IF FGt(result.score, PositiveThreshold) THEN "positive"
          ELSE IF FLt(result.score, FNeg(PositiveThreshold)) THEN "negative"
          ELSE "neutral")
    /\ result.marketImpact =
         (IF FGt(FAbs(result.score), HighThreshold) THEN "high"
          ELSE IF FGt(FAbs(result.score), PositiveThreshold) THEN "medium"
          ELSE "low")

\* a text with 14 bullish and 11 bearish occurrences scores exactly 0.3 and
\* is neutral with a low impact
C1_Witness ==
  /\ result # NoResult
  /\ bullishMatches(text) = 14
  /\ bearishMatches(text) = 11
  /\ result.score = PositiveThreshold
  /\ result.sentiment = "neutral"
  /\ result.marketImpact = "low"

\* C2: the score of a result lies in [-1, 1] and its confidence in [0, 1].
C2_Ranges ==
  result # NoResult =>
    /\ FGe(result.score, MinusOne)
    /\ FLe(result.score, One)
    /\ FGe(result.confidence, FZero)
    /\ FLe(result.confidence, One)

\* five bullish occurrences and no bearish one give 0.5 * sqrt(5) > 1 before
\* the clamp and a score of 1
C2_Witness ==
  /\ result # NoResult
  /\ bullishMatches(text) = 5
  /\ bearishMatches(text) = 0
  /\ FGt(rawScore(5, 0), One)
  /\ result.score = One
  /\ result.confidence = One

\* C3: with b bullish and r bearish occurrences the score is 0 if b + r = 0
\* and otherwise 0.5 (b - r) / sqrt(b + r), clamped to [-1, 1].
C3_ScoreFormula ==
  result # NoResult =>
    With(bullishMatches(text), LAMBDA b :
    With(bearishMatches(text), LAMBDA r :
      result.score = IF b + r = 0 THEN FZero
                     ELSE FMax(MinusOne, FMin(One, rawScore(b, r)))))

\* the first sample headline (surge, strong, growth) scores 1.5 / sqrt(3),
\* about 0.866, and is positive with a high impact
C3_Witness ==
  /\ result # NoResult
  /\ text = sampleNews[1].headline
  /\ bullishMatches(text) = 3
  /\ bearishMatches(text) = 0
  /\ FGt(result.score, FRat(866, 1000))
  /\ FLt(result.score, FRat(867, 1000))
  /\ result.sentiment = "positive"
  /\ result.marketImpact = "high"

\* C4: a text without any keyword has score 0, label neutral, confidence
\* 0.2 and a low impact.
C4_NoKeywords ==
  (result # NoResult /\ bullishMatches(text) + bearishMatches(text) = 0) =>
    /\ result.score = FZero
    /\ result.sentiment = "neutral"
    /\ result.confidence = FRat(2, 10)
    /\ result.marketImpact = "low"

\* the second sample headline holds no keyword
C4_Witness ==
  /\ result # NoResult
  /\ text = sampleNews[2].headline
  /\ bullishMatches(text) + bearishMatches(text) = 0
  /\ result.sentiment = "neutral"
  /\ result.confidence = BaseConfidence

\* C5: what analyzeBatch resolves with has the length and the order of its
\* input; every element has the id, headline, source and category of the
\* input item at its place, and as sentiment the scoring of that headline,
\* in whatever order the items were completed.
C5_BatchAligned ==
  results # <<>> =>
    /\ Len(results) = Len(newsItems)
    /\ \A i \in 1..Len(newsItems) :
         /\ results[i].id = newsItems[i].id
         /\ results[i].headline = newsItems[i].headline
         /\ results[i].source = newsItems[i].source
         /\ results[i].category = newsItems[i].category
         /\ results[i].sentiment = analyzeText(newsItems[i].headline)

\* the five sample items, analysed
C5_Witness ==
  /\ Len(results) = 5
  /\ results[1].id = "1"
  /\ results[5].id = "5"
  /\ results[1].sentiment.sentiment = "positive"
  /\ results[5].sentiment.sentiment = "negative"

\* C6: a batch in which an item fails fails as a whole: a step that changes
\* the history or the analysed list of NewsAnalyzer is neither the failure
\* of an item nor a later step of an item of a batch in which one has
\* failed (no partial list is set, onBatchAnalysis is not called).
C6_BatchFailsWhole ==
  [][(sentimentHistory' # sentimentHistory \/ results' # results) =>
       ~\E k \in 1..Len(batches) : \E i \in batches[k].pending :
          ItemFail(k, i) \/ (batches[k].failed /\ ItemReady(k, i))]_vars

\* a batch with a failed item and with items still to come
C6_Witness ==
  \E k \in 1..Len(batches) :
    /\ batches[k].failed
    /\ batches[k].live
    /\ batches[k].pending # {}
    /\ results = <<>>
    /\ sentimentHistory = <<>>

IsPrefix(a, b) == Len(a) <= Len(b) /\ SubSeq(b, 1, Len(a)) = a

\* C7: the history is append-only: whatever step is taken, the history
\* before it is a prefix of the history after it.
C7_AppendOnly == [][IsPrefix(sentimentHistory, sentimentHistory')]_vars

\* a typed text analysed first and the five sample items appended after it
C7_Witness ==
  /\ Len(sentimentHistory) = 6
  /\ sentimentHistory[1].text \in Range(typedTexts)
  /\ sentimentHistory[2].text = sampleNews[1].headline
  /\ sentimentHistory[6].text = sampleNews[5].headline

\* the last k entries of a history
lastEntries(history, k) ==
  SubSeq(history, Len(history) - k + 1, Len(history))

\* min(10, n)
windowLength(history) ==
  IF Len(history) < WindowSize THEN Len(history) ELSE WindowSize

signedAdd(a, b) ==
  IF a.s = b.s THEN [s |-> a.s, m |-> BAdd(a.m, b.m)]
  ELSE IF BCmp(a.m, b.m) >= 0 THEN [s |-> a.s, m |-> BSub(a.m, b.m)]
  ELSE [s |-> b.s, m |-> BSub(b.m, a.m)]

signOf(a) == IF a.m = <<>> THEN 0 ELSE 1 - 2 * a.s

signedCmp(a, b) ==
  IF signOf(a) # signOf(b) THEN (IF signOf(a) > signOf(b) THEN 1 ELSE -1)
  ELSE signOf(a) * BCmp(a.m, b.m)

\* the double x as a multiple of 2^e, for e <= x.e
scaled(x, e) ==
  [s |-> x.s, m |-> IF FIsZero(x) THEN <<>> ELSE BShl(x.m, x.e - e)]

\* -1, 0, 1 as the sum of the doubles of values, taken exactly, is below,
\* equal to or above Len(values) * t: the mean is below, on or above t
meanCmpAt(values, t, e) ==
  signedCmp(reduce(LAMBDA sum, x : signedAdd(sum, scaled(x, e)), values, 1,
                   [s |-> 0, m |-> <<>>]),
            [s |-> t.s, m |-> BMulSmall(scaled(t, e).m, Len(values))])

meanCmp(values, t) ==
  meanCmpAt(values, t, Least({values[i].e : i \in 1..Len(values)} \cup {t.e}))

scoresOf(entries) == [i \in 1..Len(entries) |-> entries[i].score]
confidencesOf(entries) == [i \in 1..Len(entries) |-> entries[i].confidence]

\* the action the means of a window call for
actionFor(entries) ==
  IF meanCmp(confidencesOf(entries), ConfidenceThreshold) <= 0 THEN "hold"
  ELSE IF meanCmp(scoresOf(entries), BuyThreshold) > 0 THEN "buy"
  ELSE IF meanCmp(scoresOf(entries), FNeg(BuyThreshold)) < 0 THEN "sell"
  ELSE "hold"

\* C9: the recommended action is buy if the mean score of the window is
\* above 0.3 and its mean confidence above 0.7, sell if the mean score is
\* below -0.3 and the mean confidence above 0.7, and hold otherwise, a mean
\* exactly on a threshold included.
C9_RecommendedAction ==
  (riskMounted(activeTab) /\ Len(sentimentHistory) > 0) =>
    portfolioImpact.recommendedAction
      = actionFor(lastEntries(sentimentHistory, windowLength(sentimentHistory)))

\* the entries of a history with the label
labelled(history, label) ==
  Cardinality({i \in 1..Len(history) : history[i].sentiment = label})

\* C10: the bullish, bearish and neutral counts of the dashboard are the
\* numbers of positive, negative and neutral entries of the history, and
\* they add up to its length.
C10_LabelCounts ==
  (dashboardMounted(activeTab) /\ Len(sentimentHistory) > 0) =>
    With(marketMetrics, LAMBDA metrics :
      /\ metrics.bullishCount = labelled(sentimentHistory, "positive")
      /\ metrics.bearishCount = labelled(sentimentHistory, "negative")
      /\ metrics.neutralCount = labelled(sentimentHistory, "neutral")
      /\ metrics.bullishCount + metrics.bearishCount + metrics.neutralCount
           = Len(sentimentHistory))

\* every entry of the history has the score of the first
sameScores(history) ==
  \A i \in 1..Len(history) : history[i].score = history[1].score

\* C11: the dashboard's metrics are recomputed from the whole of a non-empty
\* history: avgSentiment is the mean of all its scores, volatility the
\* square root of the mean squared deviation from it (divided by n), and the
\* volatility is 0 whenever all the scores are the same.
C11_DashboardStatistics ==
  (dashboardMounted(activeTab) /\ Len(sentimentHistory) > 0) =>
    With(marketMetrics, LAMBDA metrics :
      /\ metrics.avgSentiment = avgScore(sentimentHistory)
      /\ metrics.volatility
           = FSqrt(varianceOf(sentimentHistory, avgScore(sentimentHistory)))
      /\ sameScores(sentimentHistory) => metrics.volatility = FZero)

-----------------------------------------------------------------------------
(* MarketDashboard: what it derives from marketMetrics when it renders.    *)

StatusThreshold == FRat(2, 10)
HighRiskThreshold == FRat(5, 10)
MediumRiskThreshold == FRat(2, 10)

\* getMarketStatus with the thresholds of the per-item label; C12 does not
\* hold of it
getMarketStatusPerItem(metrics) ==
  IF FGt(metrics.avgSentiment, PositiveThreshold) THEN "Bullish"
  ELSE IF FLt(metrics.avgSentiment, FNeg(PositiveThreshold)) THEN "Bearish"
  ELSE "Neutral"

\* getMarketStatus().status
getMarketStatus(metrics) ==
  IF FGt(metrics.avgSentiment, StatusThreshold) THEN "Bullish"
  ELSE IF FLt(metrics.avgSentiment, FNeg(StatusThreshold)) THEN "Bearish"
  ELSE "Neutral"

\* Risk Level: volatility > 0.5 ? 'High' : volatility > 0.2 ? 'Medium' : 'Low'
riskLevelOf(metrics) ==
  IF FGt(metrics.volatility, HighRiskThreshold) THEN "High"
  ELSE IF FGt(metrics.volatility, MediumRiskThreshold) THEN "Medium"
  ELSE "Low"

\* what the mounted dashboard shows
marketStatus == getMarketStatus(marketMetrics)
riskLevel == riskLevelOf(marketMetrics)

\* C12: the market status is Bullish exactly when avgSentiment > 0.2,
\* Bearish exactly when avgSentiment < -0.2 and Neutral otherwise; the risk
\* level is High exactly when volatility > 0.5, Medium exactly when
\* 0.2 < volatility <= 0.5 and Low otherwise.
C12_StatusAndRiskLevel ==
  dashboardMounted(activeTab) =>
    With(marketMetrics, LAMBDA metrics :
    With(getMarketStatus(metrics), LAMBDA status :
    With(riskLevelOf(metrics), LAMBDA level :
      /\ status \in {"Bullish", "Bearish", "Neutral"}
      /\ (status = "Bullish") <=> FGt(metrics.avgSentiment, FRat(2, 10))
      /\ (status = "Bearish") <=> FLt(metrics.avgSentiment, FRat(-2, 10))
      /\ level \in {"High", "Medium", "Low"}
      /\ (level = "High") <=> FGt(metrics.volatility, FRat(5, 10))
      /\ (level = "Medium") <=> (/\ FGt(metrics.volatility, FRat(2, 10))
                                 /\ FLe(metrics.volatility, FRat(5, 10))))))

\* a mean between 0.2 and the per-item 0.3 is Bullish, with a volatility
\* between 0.2 and 0.5 that is Medium
C12_Witness ==
  /\ dashboardMounted(activeTab)
  /\ Len(sentimentHistory) > 0
  /\ FGt(marketMetrics.avgSentiment, StatusThreshold)
  /\ FLt(marketMetrics.avgSentiment, PositiveThreshold)
  /\ marketStatus = "Bullish"
  /\ riskLevel = "Medium"

-----------------------------------------------------------------------------
(* SpecSectors: App and the aggregators over texts that name sectors.      *)

\* SpecSectors: the history never grows beyond MaxSectorHistory entries
MaxSectorHistory == 4

NextSectors ==
  \/ \E t \in Range(sectorTexts) \cup {typedTexts[1]} :
       OnAnalysis(t, MaxSectorHistory)
  \/ \E tab \in Tabs : SetActiveTab(tab)

SpecSectors == Init /\ [][NextSectors]_vars

\* the entries tagged with the sector
taggedWith(entries, sector) ==
  SelectSeq(entries, LAMBDA e : \E k \in 1..Len(e.sectors) : e.sectors[k] = sector)

\* the places of a list of records whose sector field is name
placesOf(list, name) == {k \in 1..Len(list) : list[k].sector = name}

\* C13: in the sector aggregation over the window every entry counts once,
\* with its full score, for each of the sectors it is tagged with and for no
\* other: a sector no entry of the window is tagged with does not occur, and
\* a sector's count is the number of the window's entries tagged with it, its
\* total the sum and its impact the mean of their scores.
C13_SectorAggregation ==
  (riskMounted(activeTab) /\ Len(sentimentHistory) > 0) =>
    With(lastEntries(sentimentHistory, windowLength(sentimentHistory)),
         LAMBDA recent :
    With(sectorCountsOf(recent), LAMBDA counts :
    With(portfolioImpact.impactedSectors, LAMBDA impacted :
      \A j \in 1..Len(sectors) :
        With(taggedWith(recent, sectors[j]), LAMBDA tagged :
          IF tagged = <<>>
          THEN /\ placesOf(counts, sectors[j]) = {}
               /\ placesOf(impacted, capitalize(sectors[j])) = {}
          ELSE /\ \E k \in 1..Len(counts) :
                    /\ placesOf(counts, sectors[j]) = {k}
                    /\ counts[k].count = Len(tagged)
                    /\ counts[k].totalSentiment
                         = reduce(LAMBDA sum, e : FAdd(sum, e.score),
                                  tagged, 1, FZero)
               /\ \E k \in 1..Len(impacted) :
                    /\ placesOf(impacted, capitalize(sectors[j])) = {k}
                    /\ impacted[k].impact = avgScore(tagged)))))

\* a window with an entry tagged technology and finance, one tagged energy
\* and finance and one without a sector: finance has the mean of the two
C13_Witness ==
  /\ riskMounted(activeTab)
  /\ Len(sentimentHistory) = 3
  /\ \E i, j, k \in 1..3 :
       /\ Len(sentimentHistory[i].sectors) = 2
       /\ Len(sentimentHistory[j].sectors) = 2
       /\ sentimentHistory[i].sectors # sentimentHistory[j].sectors
       /\ sentimentHistory[k].sectors = <<>>
  /\ Len(portfolioImpact.impactedSectors) = 3
  /\ \E k \in 1..3 :
       /\ portfolioImpact.impactedSectors[k].sector
            = <<"F", "i", "n", "a", "n", "c", "e">>
       /\ portfolioImpact.impactedSectors[k].impact = FZero

\* the sectors that occur in the entries, as impactedSectors names them
sectorNamesOf(entries) ==
  {capitalize(sectors[j]) : j \in {i \in 1..Len(sectors) :
                                     taggedWith(entries, sectors[i]) # <<>>}}

\* C14: impactedSectors lists every sector that occurs in the window once
\* and nothing else, each labelled positive for an impact above 0.1,
\* negative for one below -0.1 and neutral otherwise, in the order of
\* non-increasing absolute impact.
C14_ImpactedSectors ==
  (riskMounted(activeTab) /\ Len(sentimentHistory) > 0) =>
    With(lastEntries(sentimentHistory, windowLength(sentimentHistory)),
         LAMBDA recent :
    With(portfolioImpact.impactedSectors, LAMBDA impacted :
      /\ {impacted[k].sector : k \in 1..Len(impacted)} = sectorNamesOf(recent)
      /\ Len(impacted) = Cardinality(sectorNamesOf(recent))
      /\ \A k \in 1..Len(impacted) :
           impacted[k].sentiment =
             (IF FGt(impacted[k].impact, FRat(1, 10)) THEN "positive"
              ELSE IF FLt(impacted[k].impact, FRat(-1, 10)) THEN "negative"
              ELSE "neutral")
      /\ \A k \in 1..(Len(impacted) - 1) :
           FGe(FAbs(impacted[k].impact), FAbs(impacted[k + 1].impact))))

\* energy comes first into the window, with impact 0, and is listed last,
\* after technology and finance
C14_Witness ==
  /\ riskMounted(activeTab)
  /\ Len(sentimentHistory) = 2
  /\ sentimentHistory[1].sectors = <<sectors[4]>>
  /\ Len(portfolioImpact.impactedSectors) = 3
  /\ portfolioImpact.impactedSectors[1].sentiment = "positive"
  /\ portfolioImpact.impactedSectors[3].sector = capitalize(sectors[4])
  /\ portfolioImpact.impactedSectors[3].sentiment = "neutral"

\* C15: while the history is empty the mounted risk panel has no assessment
\* and the mounted dashboard its initial all-zero metrics; with a non-empty
\* history the mounted risk panel has an assessment, whatever came before
\* (the history itself never shrinks, C7).
C15_EmptyHistory ==
  /\ riskMounted(activeTab) =>
       ((portfolioImpact = NoImpact) <=> (Len(sentimentHistory) = 0))
  /\ (dashboardMounted(activeTab) /\ Len(sentimentHistory) = 0) =>
       marketMetrics = InitialMetrics

\* the first entry arrives while the risk panel is mounted
C15_Witness ==
  /\ riskMounted(activeTab)
  /\ Len(sentimentHistory) = 1
  /\ riskSeen = sentimentHistory
  /\ portfolioImpact # NoImpact
  /\ portfolioImpact.recommendedAction \in {"buy", "sell", "hold"}

\* a step in which a call of analyzeText rejects: tf.ready() rejects for the
\* initializeModel that analyzeText awaits, of a single analysis or of an
\* item of a batch
analyzeTextRejects ==
  \/ \E k \in 1..Len(singles) : singles[k].pc = "retry" /\ SingleFail(k)
  \/ \E k \in 1..Len(batches) : \E i \in batches[k].pending : ItemFail(k, i)

\* C16: whatever the state of the hook, a failing initialization included,
\* a call of analyzeText resolves with a result: no step is the rejection of
\* a call of analyzeText.
C16_AnalyzeTextResolves == [][~analyzeTextRejects]_vars

\* a step in which a call of analyzeText, of a mounted component, runs to
\* its end and resolves: at once with a model in modelRef, or else after the
\* tf.ready() of the initializeModel it awaits
analyzeTextResolves ==
  \/ analyzerHook.modelRef /\ AnalyzeClick
  \/ \E k \in 1..Len(singles) :
       singles[k].live /\ singles[k].pc = "retry" /\ SingleReady(k)
  \/ \E k \in 1..Len(batches) : \E i \in batches[k].pending :
       batches[k].live /\ ItemReady(k, i)

\* C17: analyzeText is a pure function of its text: a call that resolves
\* leaves the state of the hook (isLoading, the model, isModelReady) as it
\* was.
C17_AnalyzeTextPure ==
  [][analyzeTextResolves =>
       (analyzerHook' = analyzerHook /\ newsHook' = newsHook)]_vars

\* C18: the items of NewsAnalyzer's newsItems carry no sentiment before a
\* batch analysis, and after a successful one each of them carries its
\* SentimentResult, the scoring of its headline.
C18_SentimentAttached ==
  \A i \in 1..Len(newsItems) :
    IF results = <<>>
    THEN "sentiment" \notin DOMAIN newsItems[i]
    ELSE /\ "sentiment" \in DOMAIN newsItems[i]
         /\ newsItems[i].sentiment = analyzeText(newsItems[i].headline)


-----------------------------------------------------------------------------
(* SpecNews: the news services under every reply of their sources.         *)

\* NewsAnalyzer.loadLatestNews from the click to setNewsItems, nothing in
\* between
LoadLatestNews ==
  /\ newsMounted(activeTab)
  /\ fetched' = [service |-> "FreeNewsService", limit |-> NewsLimit,
                 rejected |-> FALSE,
                 news |-> fetchLatestFinancialNews(feeds, NewsLimit,
                                                   CurrentTime)]
  /\ newsItems' = fetched'.news
  /\ UNCHANGED <<feeds, sentimentHistory, activeTab, text, result,
                 modelInitialized, analyzerHook, results, newsHook, singles,
                 batches, riskSeen, dashboardSeen>>

\* a call of one service's fetchLatestFinancialNews(limit)
FetchLatestNews(service, limit) ==
  /\ fetched' =
       IF service = "FreeNewsService"
       THEN [service |-> service, limit |-> limit, rejected |-> FALSE,
             news |-> fetchLatestFinancialNews(feeds, limit, CurrentTime)]
       ELSE With(NewsService_fetchLatestFinancialNews(feeds, limit),
                 LAMBDA outcome :
              [service |-> service, limit |-> limit,
               rejected |-> outcome.rejected, news |-> outcome.news])
  /\ UNCHANGED <<feeds, sentimentHistory, activeTab, text, result,
                 modelInitialized, analyzerHook, newsItems, results, newsHook,
                 singles, batches, riskSeen, dashboardSeen>>

InitNews == text = <<>> /\ feeds \in feedStates /\ Mounted

NextNews ==
  \/ LoadLatestNews
  \/ \E service \in {"FreeNewsService", "NewsService"} :
       \E limit \in 1..MaxLimit \cup {NewsLimit} :
          FetchLatestNews(service, limit)
  \/ \E tab \in {"analyzer", "batch"} : SetActiveTab(tab)

SpecNews == InitNews /\ [][NextNews]_vars


-----------------------------------------------------------------------------
(* C19: no two headlines of a fetched list are the same but for case,      *)
(* punctuation and whitespace.                                             *)

\* the items the sources of the service of the last call gave, in source order
sourcedNews ==
  IF fetched.service = "FreeNewsService" THEN allNewsOf(feeds)
  ELSE NewsService_allNews(feeds)

sameHeadline(a, b) == titleKey(a.headline) = titleKey(b.headline)

\* C19: whichever sources succeed, the list fetchLatestFinancialNews returns
\* holds no two items whose headlines are equal after lower-casing, removing
\* punctuation and normalising whitespace, and every item it returns from the
\* sources is the first one in source order with its headline.
C19_NoDuplicateHeadlines ==
  (fetched.service # "none" /\ ~fetched.rejected) =>
    /\ \A i, j \in 1..Len(fetched.news) :
         i # j => ~sameHeadline(fetched.news[i], fetched.news[j])
    /\ \A i \in 1..Len(fetched.news) : \A k \in 1..Len(sourcedNews) :
         sourcedNews[k].id = fetched.news[i].id =>
           \A e \in 1..(k - 1) : ~sameHeadline(sourcedNews[e], sourcedNews[k])

\* the same of the FreeNewsService alone
C19_FreeNewsService ==
  fetched.service = "FreeNewsService" => C19_NoDuplicateHeadlines

C19_FreeWitness ==
  /\ fetched.service = "FreeNewsService"
  /\ Len(fetched.news) = 3
  /\ Len(sourcedNews) = 6


-----------------------------------------------------------------------------
(* C20: the static items only when no source request succeeded.            *)

fallbackIds == {item.id : item \in Range(getFallbackNews(CurrentTime))}

succeeded == {k \in 1..Len(feedSources) : feeds[k].ok}

\* C20: the free news service returns its built-in static items only if no
\* source request succeeded; when at least one succeeded, every item that
\* fetchLatestFinancialNews returns was obtained from a source that
\* succeeded, and none is a static item.
C20_FallbackOnlyOnTotalFailure ==
  fetched.service = "FreeNewsService" =>
    /\ (\E item \in Range(fetched.news) : item.id \in fallbackIds) =>
         succeeded = {}
    /\ succeeded # {} =>
         \A item \in Range(fetched.news) :
            /\ item.id \notin fallbackIds
            /\ \E k \in succeeded : item \in Range(fetchRSSFeed(k, feeds[k]))


-----------------------------------------------------------------------------
(* C21: what a successful analysis appends.                                *)

\* the results of the items of a batch, in input order
sentimentsOf(items) ==
  [i \in 1..Len(items) |-> analyzeText(items[i].headline)]

\* C21: the step in which a batch analysis of n items succeeds appends
\* exactly the n results to the history, as one block in input order, and
\* the step in which a single analysis succeeds appends exactly its one
\* result.
C21_AppendsExactly ==
  [][/\ \A k \in 1..Len(batches) : \A i \in batches[k].pending :
          (batchResolves(batches[k], i) /\ ItemReady(k, i)) =>
            sentimentHistory' = sentimentHistory \o sentimentsOf(batches[k].items)
     /\ (newsHook.modelRef /\ AnalyzeBatchClick) =>
          sentimentHistory' = sentimentHistory \o sentimentsOf(newsItems)
     /\ \A k \in 1..Len(singles) :
          SingleReady(k) =>
            sentimentHistory' =
              Append(sentimentHistory, analyzeText(singles[k].text))
     /\ (analyzerHook.modelRef /\ AnalyzeClick) =>
          sentimentHistory' = Append(sentimentHistory, analyzeText(text))]_vars

\* the five sample items analysed in one batch, on the News Feed tab
C21_Witness ==
  /\ newsMounted(activeTab)
  /\ Len(results) = Len(sampleNews)
  /\ sentimentHistory = sentimentsOf(sampleNews)


-----------------------------------------------------------------------------
(* SpecRace: analyses of the SentimentAnalyzer and of the NewsAnalyzer in   *)
(* flight together, over a news list of two items.                         *)

InitRace == text = <<>> /\ feeds = raceFeeds /\ Mounted

NextRace ==
  \/ SetText(typedTexts[1])
  \/ AnalyzeClickWithin(MaxRaceInFlight, MaxRaceHistory)
  \/ \E k \in 1..MaxRaceInFlight : SingleReady(k)
  \/ \E k \in 1..MaxRaceInFlight : SingleFail(k)
  \/ LoadLatestNews
  \/ AnalyzeBatchClickWithin(MaxRaceInFlight, MaxRaceHistory)
  \/ \E k \in 1..MaxRaceInFlight : \E i \in 1..MaxRaceHistory : ItemReady(k, i)
  \/ \E k \in 1..MaxRaceInFlight : \E i \in 1..MaxRaceHistory : ItemFail(k, i)
  \/ \E tab \in Tabs : SetActiveTab(tab)

SpecRace == InitRace /\ [][NextRace]_vars


\* the step is the successful end of an analysis, and the history after it
\* is the history before it followed by the results of that analysis
appendsCompleted ==
  \/ \E k \in 1..Len(singles) :
       /\ SingleReady(k)
       /\ sentimentHistory' =
            Append(sentimentHistory, analyzeText(singles[k].text))
  \/ \E k \in 1..Len(batches) : \E i \in batches[k].pending :
       /\ batchResolves(batches[k], i)
       /\ ItemReady(k, i)
       /\ sentimentHistory' =
            sentimentHistory \o sentimentsOf(batches[k].items)
  \/ /\ analyzerHook.modelRef
     /\ AnalyzeClickWithin(MaxRaceInFlight, MaxRaceHistory)
     /\ sentimentHistory' = Append(sentimentHistory, analyzeText(text))
  \/ /\ newsHook.modelRef
     /\ AnalyzeBatchClickWithin(MaxRaceInFlight, MaxRaceHistory)
     /\ sentimentHistory' = sentimentHistory \o sentimentsOf(newsItems)

\* the entries the analyses still in flight will append if they succeed
toCome == Len(singles) + PendingAppends(batches, 1)

\* C22: however the completions of the analyses of the two components
\* interleave, after a tab switch too, no append overwrites, drops or
\* duplicates another: a step changes the history only as the successful
\* end of an analysis, by appending its results to the history as it is
\* then; an analysis that ends successfully adds as many entries as it has
\* results, whether its component is still mounted or not; and the analyses
\* that stay in flight are the same as before.
C22_NoLostAppend ==
  [][/\ sentimentHistory' # sentimentHistory => appendsCompleted
     /\ \A k \in 1..Len(singles) :
          SingleReady(k) =>
            /\ Len(sentimentHistory') = Len(sentimentHistory) + 1
            /\ batches' = batches
     /\ \A k \in 1..Len(batches) : \A i \in batches[k].pending :
          (batchResolves(batches[k], i) /\ ItemReady(k, i)) =>
            /\ Len(sentimentHistory') =
                 Len(sentimentHistory) + Len(batches[k].items)
            /\ singles' = singles
     /\ Len(sentimentHistory') + toCome' >= Len(sentimentHistory)]_vars

\* a batch has ended and its two results are in the history while the single
\* analysis started before it, its component unmounted since, is still waiting
C22_Witness ==
  /\ Len(singles) = 1
  /\ ~singles[1].live
  /\ batches = <<>>
  /\ Len(sentimentHistory) = 2
  /\ sentimentHistory = sentimentsOf(fetched.news)
  /\ ~newsMounted(activeTab)


-----------------------------------------------------------------------------
(* C23: one model for one hook instance.                                   *)

\* a step in which an initializeModel call of the mounted hook instance gets
\* past tf.ready() and builds a model (tf.sequential, modelRef.current = model)
buildsModel(hook) ==
  \/ /\ hook = "analyzerHook"
     /\ \E k \in 1..Len(singles) : singles[k].live /\ SingleReady(k)
  \/ /\ hook = "newsHook"
     /\ \E k \in 1..Len(batches) : \E i \in batches[k].pending :
          batches[k].live /\ ItemReady(k, i)

\* C23: a hook instance builds at most one model: a step that builds a model
\* starts in a state in which the instance has none yet, the steps of the
\* items of its first batch included.
C23_SingleModel ==
  [][/\ buildsModel("analyzerHook") => ~analyzerHook.modelRef
     /\ buildsModel("newsHook") => ~newsHook.modelRef]_vars

\* the same of the SentimentAnalyzer's instance alone
C23_AnalyzerHook ==
  [][buildsModel("analyzerHook") => ~analyzerHook.modelRef]_vars


-----------------------------------------------------------------------------
(* C24: isLoading while a batch is in progress.                            *)

\* the batches of the mounted NewsAnalyzer whose Promise.all has neither
\* resolved nor rejected yet
unsettled == {k \in 1..Len(batches) : batches[k].live /\ ~batches[k].failed}

\* C24: as long as a batch analysis started through the mounted hook
\* instance has not settled, isLoading of that instance is true, so that the
\* Analyze Batch button is disabled and no second batch is started.
C24_LoadingWhileBatch ==
  /\ unsettled # {} => newsHook.isLoading
  /\ Cardinality(unsettled) <= 1


-----------------------------------------------------------------------------
(* C25: the free news service always has something to show.                *)

\* the feeds that were not delivered
failedFeeds == {k \in 1..Len(feedSources) : ~feeds[k].ok}

\* C25: whichever feeds are delivered and whichever fail, a call of the free
\* service's fetchLatestFinancialNews with a limit of 1 or more does not
\* reject and resolves with a list that is not empty; a feed that fails
\* contributes nothing and takes nothing from the others (what the feeds give
\* together is what the delivered ones give, and with the limit of the
\* NewsAnalyzer each of their headlines is in the list); and when no feed
\* gives an item the list is the five built-in items.
C25_NeverEmpty ==
  (fetched.service = "FreeNewsService" /\ fetched.limit >= 1) =>
    /\ ~fetched.rejected
    /\ Len(fetched.news) >= 1
    /\ \A k \in failedFeeds : fetchRSSFeed(k, feeds[k]) = <<>>
    /\ fetched.limit = NewsLimit =>
         \A k \in succeeded : \A item \in Range(fetchRSSFeed(k, feeds[k])) :
            \E got \in Range(fetched.news) : sameHeadline(got, item)
    /\ allNewsOf(feeds) = <<>> =>
         /\ fetched.news = getFallbackNews(CurrentTime)
         /\ Len(fetched.news) = 5

\* one feed fails, the next is delivered with items, and the list asked for
\* with limit 1 holds one item of a feed
C25_Witness ==
  /\ fetched.service = "FreeNewsService"
  /\ fetched.limit = 1
  /\ 1 \in failedFeeds
  /\ 2 \in succeeded
  /\ feeds[2].items # <<>>
  /\ Len(fetched.news) = 1
  /\ fetched.news[1].id \notin fallbackIds


-----------------------------------------------------------------------------
(* C26: the order of the CORS proxies.                                     *)

\* the proxies through which the request for feed k succeeds
workingProxies(k) == {j \in 1..Len(CORS_PROXIES) : feeds[k].works[j]}

\* C26: for every feed, fetchWithProxy tries allorigins, corsproxy.io and
\* codetabs in this order, stops at the first one that succeeds and returns
\* what it delivers, makes at most 3 requests, and fails with 'All CORS
\* proxies failed' exactly when all three requests have failed.
C26_ProxyOrder ==
  /\ CORS_PROXIES = <<"allorigins", "corsproxy.io", "codetabs">>
  /\ \A k \in 1..Len(feedSources) :
       /\ feeds[k].attempts \in 1..3
       /\ feeds[k].ok <=> workingProxies(k) # {}
       /\ feeds[k].ok =>
            /\ feeds[k].proxy = Least(workingProxies(k))
            /\ feeds[k].attempts = feeds[k].proxy
            /\ feeds[k].error = ""
            /\ feeds[k].items \in {<<>>} \cup Range(rssLists)
       /\ ~feeds[k].ok =>
            /\ feeds[k].attempts = 3
            /\ feeds[k].items = <<>>
       /\ feeds[k].error = "All CORS proxies failed" <=>
            workingProxies(k) = {}

\* the first feed arrives through the third proxy after two failed requests,
\* the second through the first although the third works as well, and the
\* news fetched hold an item of each
C26_Witness ==
  /\ feeds[1].works = <<FALSE, FALSE, TRUE>>
  /\ feeds[1].proxy = 3
  /\ feeds[1].attempts = 3
  /\ feeds[2].works = <<TRUE, FALSE, TRUE>>
  /\ feeds[2].proxy = 1
  /\ fetched.service = "FreeNewsService"
  /\ \E item \in Range(fetched.news) : item.source = "Yahoo Finance"
  /\ \E item \in Range(fetched.news) : item.source = "Yahoo Finance Markets"


-----------------------------------------------------------------------------
(* SpecBounds: histories of results at the ends of the scale and in the    *)
(* middle of it.                                                           *)

NextBounds ==
  \/ \E t \in Range(strongTexts) \cup {sectorTexts[3], typedTexts[2]} :
       OnAnalysis(t, MaxBoundsHistory)
  \/ \E tab \in Tabs : SetActiveTab(tab)

SpecBounds == Init /\ [][NextBounds]_vars

Hundred == FromInt(100)

between(x, low, high) == FGe(x, low) /\ FLe(x, high)

\* C27: an assessment has a riskScore from 0 to 100, a confidence from 0 to
\* 1 and an overallSentiment from -1 to 1, every entry of the history having
\* a score from -1 to 1 and a confidence from 0 to 1.
C27_AssessmentRanges ==
  /\ \A i \in 1..Len(sentimentHistory) :
       /\ between(sentimentHistory[i].score, MinusOne, One)
       /\ between(sentimentHistory[i].confidence, FZero, One)
  /\ riskMounted(activeTab) =>
       With(portfolioImpact, LAMBDA impact :
         impact # NoImpact =>
           /\ between(impact.riskScore, FZero, Hundred)
           /\ between(impact.confidence, FZero, One)
           /\ between(impact.overallSentiment, MinusOne, One))

\* a score of 1 and a score of -1: the riskScore is 100, the confidence 1
C27_Witness ==
  /\ riskMounted(activeTab)
  /\ Len(riskSeen) = 2
  /\ riskSeen[1].score = One
  /\ riskSeen[2].score = MinusOne
  /\ portfolioImpact.riskScore = Hundred
  /\ portfolioImpact.confidence = One
  /\ portfolioImpact.overallSentiment = FZero


-----------------------------------------------------------------------------
(* C28: the confidence of an entry follows from its score.                 *)

HighConfidence == FRat(9, 10)

\* C28: every entry of the history has confidence = min(1, |score| + 0.2);
\* it is labelled neutral exactly when its confidence is at most 0.5, and
\* with a high market impact its confidence is above 0.9.
C28_ConfidenceFromScore ==
  \A i \in 1..Len(sentimentHistory) :
    With(sentimentHistory[i], LAMBDA e :
      /\ e.confidence = FMin(One, FAdd(FAbs(e.score), BaseConfidence))
      /\ e.sentiment = "neutral" <=> FLe(e.confidence, Half)
      /\ e.marketImpact = "high" => FGt(e.confidence, HighConfidence))

\* fourteen bullish and eleven bearish occurrences: a score of 1.5 / 5, the
\* double 0.3, which is neutral with a confidence of exactly 0.5
C28_Witness ==
  /\ Len(sentimentHistory) = 1
  /\ sentimentHistory[1].score = PositiveThreshold
  /\ sentimentHistory[1].sentiment = "neutral"
  /\ sentimentHistory[1].confidence = Half
  /\ bullishMatches(sentimentHistory[1].text) = 14
  /\ bearishMatches(sentimentHistory[1].text) = 11


-----------------------------------------------------------------------------
(* C29: the size and the order of the list a fetch returns.                *)

newestFirst(news) ==
  \A i \in 1..Len(news) : \A j \in i..Len(news) :
     news[i].timestamp >= news[j].timestamp

\* the unique items the sources of the called service gave, newest first
uniqueFetched ==
  IF fetched.service = "FreeNewsService"
  THEN sortByTime(removeDuplicates(allNewsOf(feeds)))
  ELSE sortByTime(NewsService_removeDuplicates(NewsService_allNews(feeds)))

\* C29: on every path, the fallback path included, the list a call of
\* fetchLatestFinancialNews(limit) returns has at most limit items and is
\* ordered by timestamp, newest first; when more than limit unique items
\* were fetched, the returned ones are the limit most recent.
C29_AtMostLimitNewestFirst ==
  (fetched.service # "none" /\ ~fetched.rejected) =>
    /\ Len(fetched.news) <= fetched.limit
    /\ newestFirst(fetched.news)
    /\ Len(uniqueFetched) > fetched.limit =>
         fetched.news = SubSeq(uniqueFetched, 1, fetched.limit)

\* what holds of the code: the same, on the paths where an item was fetched;
\* the fallback list is ordered but has five items whatever the limit
C29_OffTheFallbackPath ==
  (fetched.service # "none" /\ ~fetched.rejected) =>
    /\ newestFirst(fetched.news)
    /\ Len(uniqueFetched) >= 1 =>
         /\ Len(fetched.news) <= fetched.limit
         /\ Len(uniqueFetched) > fetched.limit =>
              fetched.news = SubSeq(uniqueFetched, 1, fetched.limit)
    /\ Len(uniqueFetched) = 0 => Len(fetched.news) = 5

\* the free service asked for one item with every feed down: five items
C29_FallbackOverLimit ==
  /\ fetched.service = "FreeNewsService"
  /\ fetched.limit = 1
  /\ Len(fetched.news) = 5


-----------------------------------------------------------------------------
(* C30: an analysis triggered with nothing to analyse.                     *)

\* the history, what the two components display, and the hooks with the
\* analyses and model initializations they have under way
analysisState ==
  <<sentimentHistory, result, results, modelInitialized, analyzerHook,
    newsHook, singles, batches>>

\* C30: with a text that is empty or white space alone, handleAnalysis does
\* nothing: no step of it starts a model initialization or a scoring, or
\* changes sentimentHistory, the displayed result or the batch results; and
\* so does analyzeBatchNews with an empty list of news.
C30_NothingToAnalyse ==
  /\ (analyzerMounted(activeTab) /\ trim(text) = <<>>) =>
       ~ENABLED (AnalyzeClick /\ ~UNCHANGED analysisState)
  /\ (newsMounted(activeTab) /\ Len(newsItems) = 0) =>
       ~ENABLED (AnalyzeBatchClick /\ ~UNCHANGED analysisState)

\* a result is displayed and recorded, the hook is idle, and the text is
\* white space alone
C30_Witness ==
  /\ analyzerMounted(activeTab)
  /\ text = blankText
  /\ result # NoResult
  /\ Len(sentimentHistory) >= 1
  /\ ~analyzerHook.isLoading

====
